---- MODULE Spec2Model ----
(***************************************************************************)
(* A model of the HM-Scrapers pricing ingestion pipeline.                  *)
(*                                                                         *)
(* Part 1 (specification Spec): the main execution of the scrapers.        *)
(*   mode = "local": the per-platform loop of choice_pricing_local.py and  *)
(*                   wyndham_pricing_local.py (the two loops are the same  *)
(*                   statement for statement);                             *)
(*   mode = "v4":    main() of choice_v4_api.py and wyndham_v4_api.py.     *)
(* Part 2 (specification SpecStore): the writers of update_records.        *)
(* Part 3 (specification SpecBatch): one batch through one entry point.   *)
(* Part 4 (specification SpecCapture): capture_api_response.               *)
(* Part 5 (specification SpecLogin): the login functions of the v4 scripts.*)
(* Part 6 (specification SpecHist): get_historical_data.                   *)
(* Part 7 (specification SpecMap): the record mappers and their callers.   *)
(* Part 8 (specification SpecRow): the columns an upsert sets or keeps.   *)
(*                                                                         *)
(* Environment assumption of Part 1: a database connection can always be   *)
(* acquired (get_db_connection returns); a failing statement is the        *)
(* mysql Error the functions catch themselves.                             *)
(***************************************************************************)
EXTENDS Integers, Sequences, FiniteSets, TLC

(* ---------------------------------------------------------------- bounds *)
\* number of credential groups returned by get_platforms_for_scraping
NumPlatforms == 2
\* largest total_properties = sum(p['property_count'] for p in platforms)
MaxTotalProps == 3
\* largest number of records one property scrape (or one payload) yields
MaxRecords == 2

\* record dates a batch may carry (consecutive days 1..MaxDate)
MaxDate == 2
\* prices a record may carry (1..MaxPrice, or no price)
MaxPrice == 2

Platforms == 1..NumPlatforms

RECURSIVE SumTo(_, _)
SumTo(f, n) == IF n = 0 THEN 0 ELSE f[n] + SumTo(f, n - 1)

VARIABLES
    (* ---- main execution ---- *)
    mode,             \* "local" | "v4": which script runs
    property_count,   \* platform -> COUNT(p.id)
    codes_len,        \* platform -> len(platform['property_codes'])
    pc,               \* position of the script
    platform_idx,     \* enumerate(platforms, 1)
    prop_idx,         \* 1-based position of range(platform['property_count'])
    driver,           \* 0 = None, else the session the variable refers to
    launched,         \* number of browser sessions started so far
    open,             \* sessions started and not quit
    runs,             \* scraping_runs rows of this execution, by run id
    run_id,           \* 0 = None, else the run being processed
    login,            \* platform -> "none" | "ok" | "failed"
    exc,              \* the exception being handled ("none" when none)
    attempted,        \* platforms whose try block was entered, in order
    successful_runs,
    failed_runs,
    written,          \* platform -> pricing records persisted for its properties
    last_scraped,     \* platform -> last_scraped_at was updated
    temp_dirs,        \* platforms whose tempfile.mkdtemp() directories exist
    captured,         \* history: "none" | "payload" | "nothing" came of the capture
    (* ---- writers of update_records (one property) ---- *)
    store,            \* committed rows of update_records
    wkind,            \* writer -> "legacy" | "api"
    wpc,              \* writer -> "next" | "execute" | "done"
    wdate,            \* writer -> first record date its batch may still carry
    wrec,             \* writer -> the parsed entry being saved (legacy)
    wprev,            \* writer -> previous_standard_price it fetched
    pend,             \* writer -> statements executed and not committed
    lastStmt,         \* history: date -> last committed statement of the key
    lastKey,          \* history: date of the statement committed last (0: none)
    wrote,            \* history: writer -> dates it committed
    (* ---- one batch of entries through one entry point ---- *)
    bkind,            \* "legacy" | "api" | "load": the entry point
    bentries,         \* the entries: "ok" | "nodate" | "fail" each
    bdates,           \* the record date each entry resolves to
    bpc,              \* "scrape" | "entries" | "finalize" | "done" | "raised"
    bpos,             \* position in the batch
    saved_count,      \* legacy save_pricing_data
    success_count,    \* process_and_save_to_database
    fail_count,       \* process_and_save_to_database
    records,          \* load_update_records_from_json: entries appended
    bok,              \* history: entries whose own write succeeded
    bstored,          \* entries durably stored (committed)
    bret,             \* what save_pricing_data returned (Null before)
    brun,             \* the scraping_runs row of the batch (legacy)
    \* ---- capture_api_response (Part 4) ----
    script,           \* "choice" | "wyndham": whose capture_api_response
    cpc,              \* "enable" | "while" | "for" | "returned"
    elapsed,          \* time.time() - start_time, in sleeps
    logs,             \* what the last driver.get_log('performance') gave
    entry,            \* position of the for loop in logs
    json_data,        \* the value returned (Null before the return)
    valid_logged,     \* history: a matching response with a structurally valid
                      \* body was logged, retrievable at once or not
    first_valid,      \* history: first structurally valid match fetched
    driver_error,     \* history: a driver call raised out of the loop
    \* ---- login_to_choice_max / login_to_wyndham_reviq (Part 5) ----
    portal,           \* "choice" | "wyndham": whose login function
    verification_type,\* "PN" | "OTP"
    lpc,              \* position of the login function
    current_url,      \* driver.current_url
    push_options,     \* len(push_options)
    waited,           \* polls of the wait for the authenticated origin
    login_success,    \* the value returned (Null before the return)
    stages,           \* history: the stages of the login gone through
    \* ---- get_historical_data (Part 6) ----
    property_id,      \* the property asked for
    target_date,      \* the date asked for, a day number
    old_records,      \* wyndham_old_records: the <<property, date>> of its rows
    hpc,              \* "search" | "returned"
    offset_idx,       \* position of the for loop in search_offsets
    result,           \* the value returned (Null before the return)
    query_error,      \* history: a query raised MySQLError
    \* ---- the record mappers and their callers (Part 7) ----
    mkind,            \* the caller: "choice_load" | "choice_v4" | "wyndham_load" |
                      \* "wyndham_v4", or "legacy" (save_pricing_data of the row)
    raw,              \* the raw date entry date_obj (legacy: the scraped row)
    utcnow,           \* what datetime.utcnow() gives
    mpc,              \* "start" | "mapped" | "again" | "raised"
    record,           \* the record mapped (Null before)
    record_again,     \* the record of a second application (Null before)
    \* ---- the columns of a row of update_records (Part 8) ----
    urows,            \* update_records: the rows, with the columns of Part 8
    db_now,           \* what NOW() gave last; the upserts done
    duplicate,        \* history: the last upsert hit an existing key
    scraped,          \* history: per date, the Revenue and Available Rooms of
                      \* the entry saved last (Null: none saved)
    rpr_call          \* the call of calculate_revenue_per_room (Null before)

loopVars == <<mode, property_count, codes_len, pc, platform_idx, prop_idx,
              driver, launched, open, runs, run_id, login, exc, attempted,
              successful_runs, failed_runs, written, last_scraped, temp_dirs,
              captured>>

storeVars == <<store, wkind, wpc, wdate, wrec, wprev, pend, lastStmt, lastKey, wrote>>

batchVars == <<bkind, bentries, bdates, bpc, bpos, saved_count, success_count, fail_count,
               records, bok, bstored, bret, brun>>

captureVars == <<script, cpc, elapsed, logs, entry, json_data, first_valid,
                 valid_logged, driver_error>>

loginVars == <<portal, verification_type, lpc, current_url, push_options, waited,
               login_success, stages>>

histVars == <<property_id, target_date, old_records, hpc, offset_idx, result, query_error>>

mapVars == <<mkind, raw, utcnow, mpc, record, record_again>>

rowVars == <<urows, db_now, duplicate, scraped, rpr_call>>

\* what the steps of each part leave alone
notLoopVars == <<storeVars, batchVars, captureVars, loginVars, histVars, mapVars, rowVars>>

notStoreVars == <<loopVars, batchVars, captureVars, loginVars, histVars, mapVars, rowVars>>

notBatchVars == <<loopVars, storeVars, captureVars, loginVars, histVars, mapVars, rowVars>>

notCaptureVars == <<loopVars, storeVars, batchVars, loginVars, histVars, mapVars, rowVars>>

notLoginVars == <<loopVars, storeVars, batchVars, captureVars, histVars, mapVars, rowVars>>

notHistVars == <<loopVars, storeVars, batchVars, captureVars, loginVars, mapVars, rowVars>>

notMapVars == <<loopVars, storeVars, batchVars, captureVars, loginVars, histVars, rowVars>>

notRowVars == <<loopVars, storeVars, batchVars, captureVars, loginVars, histVars, mapVars>>

(* ------------------------------------------------------- scraping_runs *)
\* error_message: <<>> is NULL, otherwise the text (and, for a login failure,
\* the str(e) it carries)
NoMessage == <<>>

\* INSERT INTO scraping_runs (... status ...) VALUES (..., 'running', ...)
\* prop, origin and auth are history fields: the property the run was made
\* for, where it was made, and the group's login state at that moment.
NewRun(p, prop, origin) ==
    [platform |-> p, status |-> "running", records_created |-> 0,
     error_message |-> NoMessage, updates |-> 0,
     prop |-> prop, origin |-> origin, auth |-> login[p]]

\* UPDATE scraping_runs SET status, completed_at, records_created,
\* error_message WHERE id = run_id
UpdatedRun(r, status, records_created, error_message) ==
    [r EXCEPT !.status = status, !.records_created = records_created,
              !.error_message = error_message, !.updates = @ + 1]

\* (mutant) the UPDATE is issued but never committed
update_scraping_run_NoCommit(rs, id, status, records_created, error_message) ==
    rs

update_scraping_run(rs, id, status, records_created, error_message) ==
    [rs EXCEPT ![id] = UpdatedRun(@, status, records_created, error_message)]

\* (mutant) the reason of the failure is dropped from the message
LoginFailedMessage_NoReason(e) ==
    <<"Login failed">>

\* f"Login failed: {str(e)}"
LoginFailedMessage(e) ==
    <<"Login failed", e>>

(* ------------------------------------------------------------ Init *)
InitLoop ==
    /\ mode \in {"local", "v4"}
    \* the JOIN gives every returned platform at least one property
    /\ property_count \in [Platforms -> 1..MaxTotalProps]
    /\ SumTo(property_count, NumPlatforms) <= MaxTotalProps
    \* GROUP_CONCAT skips NULL property codes: the list may be shorter than
    \* COUNT(p.id); an empty one never reaches the loop (split on None)
    /\ codes_len \in [Platforms -> 1..MaxTotalProps]
    /\ \A p \in Platforms : codes_len[p] \in {property_count[p] - 1, property_count[p]}
    /\ pc = "create_browser"
    /\ platform_idx = 1
    /\ prop_idx = 1
    /\ driver = 0
    /\ launched = 0
    /\ open = {}
    /\ runs = <<>>
    /\ run_id = 0
    /\ login = [p \in Platforms |-> "none"]
    /\ exc = "none"
    /\ attempted = <<>>
    /\ successful_runs = 0
    /\ failed_runs = 0
    /\ written = [p \in Platforms |-> 0]
    /\ last_scraped = [p \in Platforms |-> FALSE]
    /\ temp_dirs = {}
    /\ captured = "none"

(* --------------------------------------------------------- actions *)
\* driver = None; try: driver = create_browser()
\* create_browser starts Chrome (webdriver.Chrome) and then configures it
\* (maximize_window / implicitly_wait, stealth); any of these may raise, and
\* create_browser lets the exception out without quitting what it started.
CreateBrowser ==
    /\ pc = "create_browser"
    /\ UNCHANGED notLoopVars
    \* temp_profile = tempfile.mkdtemp() (and download_dir, Wyndham) comes
    \* before Chrome is started; the v4 scripts make no directory
    /\ temp_dirs' = IF mode = "local" THEN temp_dirs \cup {platform_idx} ELSE temp_dirs
    /\ UNCHANGED captured
    /\ attempted' = Append(attempted, platform_idx)
    /\ \/ \* returns the driver
          /\ launched' = launched + 1
          /\ open' = open \cup {launched + 1}
          /\ driver' = launched + 1
          /\ exc' = "none"
          /\ pc' = IF mode = "local" THEN "get_password" ELSE "login"
       \/ \* raises before Chrome is started
          /\ UNCHANGED <<launched, open>>
          /\ driver' = 0
          /\ exc' = "browser"
          /\ pc' = "except"
       \/ \* raises after Chrome was started
          /\ launched' = launched + 1
          /\ open' = open \cup {launched + 1}
          /\ driver' = 0
          /\ exc' = "browser"
          /\ pc' = "except"
    /\ UNCHANGED <<mode, property_count, codes_len, platform_idx, prop_idx,
                   runs, run_id, login, successful_runs, failed_runs,
                   written, last_scraped>>

\* password = get_password(platform.get('password'))
\* if not password: raise ValueError(...)
GetPassword ==
    /\ pc = "get_password"
    /\ UNCHANGED notLoopVars
    /\ UNCHANGED <<temp_dirs, captured>>
    /\ \E password \in BOOLEAN :
          IF password
          THEN pc' = "login" /\ exc' = exc
          ELSE pc' = "except" /\ exc' = "no_password"
    /\ UNCHANGED <<mode, property_count, codes_len, platform_idx, prop_idx,
                   driver, launched, open, runs, run_id, login, attempted,
                   successful_runs, failed_runs, written, last_scraped>>

\* (mutant) the run of the platform is opened before authentication
Login_RunFirst ==
    /\ pc = "login"
    /\ UNCHANGED notLoopVars
    /\ UNCHANGED <<temp_dirs, captured>>
    /\ runs' = Append(runs, NewRun(platform_idx, 1, "loop"))
    /\ \E ok \in BOOLEAN :
          IF ok
          THEN /\ login' = [login EXCEPT ![platform_idx] = "ok"]
               /\ pc' = IF mode = "local" THEN "for_property" ELSE "capture"
               /\ exc' = exc
          ELSE /\ login' = [login EXCEPT ![platform_idx] = "failed"]
               /\ pc' = IF mode = "local" THEN "except" ELSE "finally"
               /\ exc' = IF mode = "local" THEN "auth" ELSE exc
    /\ prop_idx' = 1
    /\ UNCHANGED <<mode, property_count, codes_len, platform_idx, driver,
                   launched, open, run_id, attempted, successful_runs,
                   failed_runs, written, last_scraped>>

\* local: login_to_choice_max / login_to_wyndham return or raise
\* v4:    login_success = login_to_choice_max(...); if not login_success: return
Login ==
    /\ pc = "login"
    /\ UNCHANGED notLoopVars
    /\ UNCHANGED <<temp_dirs, captured>>
    /\ \E ok \in BOOLEAN :
          IF ok
          THEN /\ login' = [login EXCEPT ![platform_idx] = "ok"]
               /\ pc' = IF mode = "local" THEN "for_property" ELSE "capture"
               /\ exc' = exc
          ELSE /\ login' = [login EXCEPT ![platform_idx] = "failed"]
               /\ pc' = IF mode = "local" THEN "except" ELSE "finally"
               /\ exc' = IF mode = "local" THEN "auth" ELSE exc
    /\ prop_idx' = 1
    /\ UNCHANGED <<mode, property_count, codes_len, platform_idx, driver,
                   launched, open, runs, run_id, attempted, successful_runs,
                   failed_runs, written, last_scraped>>

\* for prop_idx in range(platform['property_count']):
\*     property_id = ...[prop_idx]; property_code = ...[prop_idx]; ...
\*     run_id = create_scraping_run(...)
\*     if not run_id: failed_runs += 1; continue
ForProperty ==
    /\ pc = "for_property"
    /\ UNCHANGED notLoopVars
    /\ UNCHANGED <<temp_dirs, captured>>
    /\ prop_idx <= property_count[platform_idx]
    /\ \/ \* platform['property_codes'][prop_idx] raises IndexError
          /\ prop_idx > codes_len[platform_idx]
          /\ exc' = "index"
          /\ pc' = "except"
          /\ UNCHANGED <<prop_idx, runs, run_id, failed_runs>>
       \/ \* create_scraping_run returns the new id
          /\ prop_idx <= codes_len[platform_idx]
          /\ runs' = Append(runs, NewRun(platform_idx, prop_idx, "loop"))
          /\ run_id' = Len(runs) + 1
          /\ pc' = "scrape"
          /\ UNCHANGED <<prop_idx, exc, failed_runs>>
       \/ \* create_scraping_run returns None
          /\ prop_idx <= codes_len[platform_idx]
          /\ failed_runs' = failed_runs + 1
          /\ prop_idx' = prop_idx + 1
          /\ UNCHANGED <<pc, exc, runs, run_id>>
    /\ UNCHANGED <<mode, property_count, codes_len, platform_idx, driver,
                   launched, open, login, attempted, successful_runs,
                   written, last_scraped>>

\* the try/except around one property: get_property_details, the scrape,
\* save_pricing_data and the update of the run
ProcessProperty ==
    /\ pc = "scrape"
    /\ UNCHANGED notLoopVars
    /\ UNCHANGED <<temp_dirs, captured>>
    /\ \/ \* property_results, saved_count > 0
          \E saved \in 1..MaxRecords :
             /\ runs' = update_scraping_run(runs, run_id, "completed", saved, NoMessage)
             /\ successful_runs' = successful_runs + 1
             /\ written' = [written EXCEPT ![platform_idx] = @ + saved]
             /\ UNCHANGED failed_runs
       \/ \* property_results, saved_count = 0
          /\ runs' = update_scraping_run(runs, run_id, "failed", 0, <<"No records saved">>)
          /\ failed_runs' = failed_runs + 1
          /\ UNCHANGED <<successful_runs, written>>
       \/ \* not property_results
          /\ runs' = update_scraping_run(runs, run_id, "failed", 0, <<"No data scraped">>)
          /\ failed_runs' = failed_runs + 1
          /\ UNCHANGED <<successful_runs, written>>
       \/ \* except Exception as e (raised before the run was updated)
          /\ runs' = update_scraping_run(runs, run_id, "failed", 0, <<"scrape error">>)
          /\ failed_runs' = failed_runs + 1
          /\ UNCHANGED <<successful_runs, written>>
    /\ prop_idx' = prop_idx + 1
    /\ run_id' = 0
    /\ pc' = "for_property"
    /\ UNCHANGED <<mode, property_count, codes_len, platform_idx, driver,
                   launched, open, login, exc, attempted, last_scraped>>

\* (mutant) the timestamp is set only if a run of the group was completed
UpdatePlatformLastScraped_IfCompleted ==
    /\ pc = "for_property"
    /\ UNCHANGED notLoopVars
    /\ UNCHANGED <<temp_dirs, captured>>
    /\ prop_idx > property_count[platform_idx]
    /\ last_scraped' = [last_scraped EXCEPT ![platform_idx] =
                           \E r \in 1..Len(runs) :
                              runs[r].platform = platform_idx /\ runs[r].status = "completed"]
    /\ pc' = "finally"
    /\ UNCHANGED <<mode, property_count, codes_len, platform_idx, prop_idx,
                   driver, launched, open, runs, run_id, login, exc, attempted,
                   successful_runs, failed_runs, written>>

\* update_platform_last_scraped(platform['platform_id']), after the loop
UpdatePlatformLastScraped ==
    /\ pc = "for_property"
    /\ UNCHANGED notLoopVars
    /\ UNCHANGED <<temp_dirs, captured>>
    /\ prop_idx > property_count[platform_idx]
    /\ last_scraped' = [last_scraped EXCEPT ![platform_idx] = TRUE]
    /\ pc' = "finally"
    /\ UNCHANGED <<mode, property_count, codes_len, platform_idx, prop_idx,
                   driver, launched, open, runs, run_id, login, exc, attempted,
                   successful_runs, failed_runs, written>>

\* (mutant) "mark all properties as failed": the runs the platform already
\* has are set to failed instead of new ones being made
HandlerRuns_MarkExisting(rs, p, k, created, e) ==
    [r \in 1..Len(rs) |->
        IF rs[r].platform = p
        THEN UpdatedRun(rs[r], "failed", 0, LoginFailedMessage(e))
        ELSE rs[r]]

\* for prop_idx in range(platform['property_count']):
\*     run_id = create_scraping_run(...)
\*     if run_id: update_scraping_run(run_id, 'failed', 0, f"Login failed: {str(e)}")
\* created: the properties for which create_scraping_run returned an id
RECURSIVE HandlerRunsFrom(_, _, _, _, _)
HandlerRunsFrom(rs, p, k, created, e) ==
    IF k > property_count[p] THEN rs
    ELSE IF k \in created
         THEN HandlerRunsFrom(
                 update_scraping_run(Append(rs, NewRun(p, k, "handler")),
                                     Len(rs) + 1, "failed", 0, LoginFailedMessage(e)),
                 p, k + 1, created, e)
         ELSE HandlerRunsFrom(rs, p, k + 1, created, e)

HandlerRuns(rs, p, k, created, e) ==
    HandlerRunsFrom(rs, p, k, created, e)

\* local: except Exception as e: (the "login failed" handler of the platform)
\* v4:    except Exception as e: print, traceback
ExceptLogin ==
    /\ pc = "except"
    /\ UNCHANGED notLoopVars
    /\ UNCHANGED <<temp_dirs, captured>>
    /\ IF mode = "local"
       THEN /\ \E created \in SUBSET (1..property_count[platform_idx]) :
                  runs' = HandlerRuns(runs, platform_idx, 1, created, exc)
            /\ failed_runs' = failed_runs + property_count[platform_idx]
       ELSE UNCHANGED <<runs, failed_runs>>
    /\ exc' = "none"
    /\ run_id' = 0
    /\ pc' = "finally"
    /\ UNCHANGED <<mode, property_count, codes_len, platform_idx, prop_idx,
                   driver, launched, open, login, attempted, successful_runs,
                   written, last_scraped>>

\* v4: json_data = capture_api_response(driver); if not json_data: return
Capture ==
    /\ pc = "capture"
    /\ UNCHANGED notLoopVars
    /\ UNCHANGED temp_dirs
    /\ \E payload \in BOOLEAN :
          /\ pc' = IF payload THEN "process" ELSE "finally"
          /\ captured' = IF payload THEN "payload" ELSE "nothing"
    /\ UNCHANGED <<mode, property_count, codes_len, platform_idx, prop_idx,
                   driver, launched, open, runs, run_id, login, exc, attempted,
                   successful_runs, failed_runs, written, last_scraped>>

\* v4: success_count, fail_count = process_and_save_to_database(json_data, db_ops)
\* (every record is saved with scraping_run_id=None)
ProcessAndSave ==
    /\ pc = "process"
    /\ UNCHANGED notLoopVars
    /\ UNCHANGED <<temp_dirs, captured>>
    /\ \E succeeded \in 0..MaxRecords :
          written' = [written EXCEPT ![platform_idx] = @ + succeeded]
    /\ pc' = "finally"
    /\ UNCHANGED <<mode, property_count, codes_len, platform_idx, prop_idx,
                   driver, launched, open, runs, run_id, login, exc, attempted,
                   successful_runs, failed_runs, last_scraped>>

\* (mutant) the loop is left after a platform whose login did not succeed
ContinueLoop_StopAfterFailure ==
    mode = "local" /\ platform_idx < NumPlatforms /\ login[platform_idx] = "ok"

\* for platform_idx, platform in enumerate(platforms, 1): another platform follows
ContinueLoop ==
    mode = "local" /\ platform_idx < NumPlatforms

\* finally: if driver: try: driver.quit() except: pass
\* then the next platform of the for loop (local), or the end of main (v4)
Finally ==
    /\ pc = "finally"
    /\ UNCHANGED notLoopVars
    /\ UNCHANGED <<temp_dirs, captured>>
    /\ open' = IF driver # 0 THEN open \ {driver} ELSE open
    /\ IF ContinueLoop
       THEN platform_idx' = platform_idx + 1 /\ pc' = "create_browser"
       ELSE platform_idx' = platform_idx /\ pc' = "done"
    /\ UNCHANGED <<mode, property_count, codes_len, prop_idx, driver, launched,
                   runs, run_id, login, exc, attempted, successful_runs,
                   failed_runs, written, last_scraped>>

NextLoop ==
    \/ CreateBrowser
    \/ GetPassword
    \/ Login
    \/ ForProperty
    \/ ProcessProperty
    \/ UpdatePlatformLastScraped
    \/ ExceptLogin
    \/ Capture
    \/ ProcessAndSave
    \/ Finally

(***************************************************************************)
(* Part 2: the writers of update_records.                                  *)
(*                                                                         *)
(* Two writers of distinct runs save batches for one property (every       *)
(* statement filters on property_id, so the rows of other properties never *)
(* take part).  A writer is the legacy save_pricing_data of                *)
(* db_operations.py (one transaction for the batch, the previous price     *)
(* fetched on a connection of its own) or the API-capture path             *)
(* process_and_save_to_database -> WyndhamDBOperations.save_pricing_data   *)
(* (one transaction per record).  The store is InnoDB: a plain SELECT      *)
(* reads committed rows only, and a row written by an open transaction is  *)
(* locked until that transaction ends.                                     *)
(***************************************************************************)
Writers == {1, 2}

Dates == 1..MaxDate

\* NULL is <<>>, a value v is <<v>>
Null == <<>>

OptPrice == {Null} \cup {<<v>> : v \in 1..MaxPrice}

\* the natural key of update_records; all rows belong to the one property
SameKey(r, v) ==
    r.record_date = v.record_date

\* SELECT standard_price FROM update_records WHERE property_id = %s
\*   AND record_date < %s AND standard_price IS NOT NULL
\*   ORDER BY record_date DESC LIMIT 1
get_previous_standard_price(rows, current_date) ==
    LET earlier == {r \in rows : r.record_date < current_date /\ r.standard_price # Null}
    IN  IF earlier = {} THEN Null
        ELSE (CHOOSE r \in earlier :
                 \A q \in earlier : q.record_date <= r.record_date).standard_price

\* standard_price_change = None
\* if current_price is not None and previous_standard_price is not None:
\*     standard_price_change = current_price_float - previous_price_float
StandardPriceChange(current_price, previous_standard_price) ==
    IF current_price # Null /\ previous_standard_price # Null
    THEN <<current_price[1] - previous_standard_price[1]>>
    ELSE Null

\* the VALUES tuple of the legacy INSERT
LegacyValues(run, data, previous_standard_price) ==
    [record_date |-> data.record_date,
     scraping_run_id |-> <<run>>,
     standard_price |-> data.standard_price,
     standard_previous_price |-> previous_standard_price,
     standard_price_change |->
         StandardPriceChange(data.standard_price, previous_standard_price)]

\* map_wyndham_json_to_update_record / map_json_to_update_record followed by
\* the VALUES tuple of the API-capture INSERT (scraping_run_id = None)
ApiValues(date_obj) ==
    [record_date |-> date_obj.date,
     scraping_run_id |-> Null,
     standard_price |-> date_obj.price,
     standard_previous_price |-> date_obj.previousRate,
     standard_price_change |-> date_obj.priceDiff]

\* (mutant) standard_previous_price is missing from the update list
OnDuplicateKeyUpdate_KeepPrevious(r, v) ==
    [r EXCEPT !.standard_price = v.standard_price,
              !.standard_price_change = v.standard_price_change]

\* ON DUPLICATE KEY UPDATE standard_price = VALUES(standard_price), ...
\* (scraping_run_id is not in the list)
OnDuplicateKeyUpdate(r, v) ==
    [r EXCEPT !.standard_price = v.standard_price,
              !.standard_previous_price = v.standard_previous_price,
              !.standard_price_change = v.standard_price_change]

\* INSERT INTO update_records (...) VALUES (...) ON DUPLICATE KEY UPDATE ...
Upsert(rows, v) ==
    IF \E r \in rows : SameKey(r, v)
    THEN {IF SameKey(r, v) THEN OnDuplicateKeyUpdate(r, v) ELSE r : r \in rows}
    ELSE rows \cup {v}

\* conn.commit(): the statements of the transaction, in the order executed
RECURSIVE Commit(_, _)
Commit(rows, stmts) ==
    IF stmts = <<>> THEN rows
    ELSE Commit(Upsert(rows, Head(stmts)), Tail(stmts))

\* history: the last committed statement of each key and the writer that
\* issued it
RECURSIVE Committed(_, _, _)
Committed(last, stmts, w) ==
    IF stmts = <<>> THEN last
    ELSE Committed([last EXCEPT ![Head(stmts).record_date] =
                       <<[values |-> Head(stmts), by |-> w]>>],
                   Tail(stmts), w)

DatesOf(stmts) ==
    {stmts[i].record_date : i \in 1..Len(stmts)}

\* the row of the key is not locked by the open transaction of another writer
LockFree(w, d) ==
    \A o \in Writers \ {w} : d \notin DatesOf(pend[o])

\* the main execution is not running
IdleLoop ==
    /\ mode = "local"
    /\ property_count = [p \in Platforms |-> 1]
    /\ codes_len = [p \in Platforms |-> 1]
    /\ pc = "done"
    /\ platform_idx = 1
    /\ prop_idx = 1
    /\ driver = 0
    /\ launched = 0
    /\ open = {}
    /\ runs = <<>>
    /\ run_id = 0
    /\ login = [p \in Platforms |-> "none"]
    /\ exc = "none"
    /\ attempted = <<>>
    /\ successful_runs = 0
    /\ failed_runs = 0
    /\ written = [p \in Platforms |-> 0]
    /\ last_scraped = [p \in Platforms |-> FALSE]
    /\ temp_dirs = {}
    /\ captured = "none"

\* no writer runs
IdleStore ==
    /\ store = {}
    /\ wkind = [w \in Writers |-> "legacy"]
    /\ wpc = [w \in Writers |-> "done"]
    /\ wdate = [w \in Writers |-> 1]
    /\ wrec = [w \in Writers |-> Null]
    /\ wprev = [w \in Writers |-> Null]
    /\ pend = [w \in Writers |-> <<>>]
    /\ lastStmt = [d \in Dates |-> Null]
    /\ lastKey = 0
    /\ wrote = [w \in Writers |-> {}]

\* no batch is being processed
IdleBatch ==
    /\ bkind = "legacy"
    /\ bentries = <<>>
    /\ bdates = <<>>
    /\ bpc = "done"
    /\ bpos = 1
    /\ saved_count = 0
    /\ success_count = 0
    /\ fail_count = 0
    /\ records = {}
    /\ bok = {}
    /\ bstored = {}
    /\ bret = Null
    /\ brun = [status |-> "running", records_created |-> 0, error_message |-> NoMessage]

\* no capture is under way
IdleCapture ==
    /\ script = "choice"
    /\ cpc = "returned"
    /\ elapsed = 0
    /\ logs = <<>>
    /\ entry = 1
    /\ json_data = Null
    /\ first_valid = Null
    /\ valid_logged = FALSE
    /\ driver_error = FALSE

\* no login function is running
IdleLogin ==
    /\ portal = "choice"
    /\ verification_type = "PN"
    /\ lpc = "returned"
    /\ current_url = <<>>
    /\ push_options = 0
    /\ waited = 0
    /\ login_success = Null
    /\ stages = <<>>

\* no historical search is under way
IdleHist ==
    /\ property_id = 1
    /\ target_date = 0
    /\ old_records = {}
    /\ hpc = "returned"
    /\ offset_idx = 1
    /\ result = Null
    /\ query_error = FALSE

\* no entry is being mapped
IdleMap ==
    /\ mkind = "choice_v4"
    /\ raw = Null
    /\ utcnow = 0
    /\ mpc = "raised"
    /\ record = Null
    /\ record_again = Null

\* no upsert of Part 8 is under way
IdleRow ==
    /\ urows = {}
    /\ db_now = 0
    /\ duplicate = FALSE
    /\ scraped = [d \in Dates |-> Null]
    /\ rpr_call = Null

\* two writers about to save; the main execution is not modelled alongside
InitStore ==
    /\ IdleLoop
    /\ IdleBatch
    /\ IdleCapture
    /\ IdleLogin
    /\ IdleHist
    /\ IdleMap
    /\ IdleRow
    /\ store = {}
    /\ wkind \in [Writers -> {"legacy", "api"}]
    \* the writers are interchangeable: one order of a mixed pair is enough
    /\ wkind[1] = "legacy" => wkind[2] = "legacy"
    /\ wpc = [w \in Writers |-> "next"]
    /\ wdate = [w \in Writers |-> 1]
    /\ wrec = [w \in Writers |-> Null]
    /\ wprev = [w \in Writers |-> Null]
    /\ pend = [w \in Writers |-> <<>>]
    /\ lastStmt = [d \in Dates |-> Null]
    /\ lastKey = 0
    /\ wrote = [w \in Writers |-> {}]

\* legacy save_pricing_data, top of the loop body for one entry:
\*   record_date = parse_date(...); if not record_date: continue
\*   current_price = parse_price(...)
\*   previous_standard_price = get_previous_standard_price(property_id, record_date)
\* (the entries of a batch come in date order, one per date; an entry whose
\* date does not parse is one the batch does not carry)
LegacyRead(w) ==
    /\ wkind[w] = "legacy"
    /\ wpc[w] = "next"
    /\ \E d \in wdate[w]..MaxDate, current_price \in OptPrice :
          /\ wrec' = [wrec EXCEPT ![w] =
                         <<[record_date |-> d, standard_price |-> current_price]>>]
          /\ wprev' = [wprev EXCEPT ![w] = get_previous_standard_price(store, d)]
          /\ wdate' = [wdate EXCEPT ![w] = d + 1]
          /\ wpc' = [wpc EXCEPT ![w] = "execute"]
    /\ UNCHANGED <<store, wkind, pend, lastStmt, lastKey, wrote>>
    /\ UNCHANGED notStoreVars

\* legacy save_pricing_data, rest of the loop body:
\*   cursor.execute(query, (...)); saved_count += 1
\*   except Error: continue
LegacyExecute(w) ==
    /\ wpc[w] = "execute"
    /\ \/ /\ LockFree(w, wrec[w][1].record_date)
          /\ pend' = [pend EXCEPT ![w] =
                         Append(@, LegacyValues(w, wrec[w][1], wprev[w]))]
       \/ \* the statement raises Error
          UNCHANGED pend
    /\ wpc' = [wpc EXCEPT ![w] = "next"]
    /\ wrec' = [wrec EXCEPT ![w] = Null]
    /\ wprev' = [wprev EXCEPT ![w] = Null]
    /\ UNCHANGED <<store, wkind, wdate, lastStmt, lastKey, wrote>>
    /\ UNCHANGED notStoreVars

\* legacy save_pricing_data after the loop:
\*   try: conn.commit(); return saved_count
\*   except Error: conn.rollback(); return 0
LegacyCommit(w) ==
    /\ wkind[w] = "legacy"
    /\ wpc[w] = "next"
    /\ wdate[w] > 1
    /\ \/ /\ store' = Commit(store, pend[w])
          /\ lastStmt' = Committed(lastStmt, pend[w], w)
          /\ lastKey' = IF pend[w] = <<>> THEN lastKey
                        ELSE pend[w][Len(pend[w])].record_date
          /\ wrote' = [wrote EXCEPT ![w] = @ \cup DatesOf(pend[w])]
       \/ \* the commit fails and the transaction is rolled back
          UNCHANGED <<store, lastStmt, lastKey, wrote>>
    /\ pend' = [pend EXCEPT ![w] = <<>>]
    /\ wpc' = [wpc EXCEPT ![w] = "done"]
    /\ UNCHANGED <<wkind, wdate, wrec, wprev>>
    /\ UNCHANGED notStoreVars

\* the payload entries of one date: the price is present or absent, and the
\* source either states a previousRate with a priceDiff or omits both
DateObjs(d) ==
    {[date |-> d, price |-> price, previousRate |-> pp[1], priceDiff |-> pp[2]] :
        price \in OptPrice, pp \in {<<Null, Null>>, <<(<<1>>), (<<0>>)>>}}

\* process_and_save_to_database, one date_obj of the payload:
\*   record = map_..._json_to_update_record(...)
\*   success = db_ops.save_pricing_data(record, scraping_run_id=None)
\* save_pricing_data: cursor.execute(query, values); connection.commit()
\*   except MySQLError: connection.rollback(); return False
ApiSave(w) ==
    /\ wkind[w] = "api"
    /\ wpc[w] = "next"
    /\ \E d \in wdate[w]..MaxDate :
          /\ wdate' = [wdate EXCEPT ![w] = d + 1]
          /\ \/ \E date_obj \in DateObjs(d) :
                   /\ LockFree(w, d)
                   /\ store' = Commit(store, <<ApiValues(date_obj)>>)
                   /\ lastStmt' = Committed(lastStmt, <<ApiValues(date_obj)>>, w)
                   /\ lastKey' = d
                   /\ wrote' = [wrote EXCEPT ![w] = @ \cup {d}]
             \/ \* the save fails (fail_count += 1)
                UNCHANGED <<store, lastStmt, lastKey, wrote>>
    /\ UNCHANGED <<wkind, wpc, wrec, wprev, pend>>
    /\ UNCHANGED notStoreVars

\* process_and_save_to_database: the payload is exhausted
ApiDone(w) ==
    /\ wkind[w] = "api"
    /\ wpc[w] = "next"
    /\ wdate[w] > 1
    /\ wpc' = [wpc EXCEPT ![w] = "done"]
    /\ UNCHANGED <<store, wkind, wdate, wrec, wprev, pend, lastStmt, lastKey, wrote>>
    /\ UNCHANGED notStoreVars

NextStore ==
    \E w \in Writers :
        \/ LegacyRead(w)
        \/ LegacyExecute(w)
        \/ LegacyCommit(w)
        \/ ApiSave(w)
        \/ ApiDone(w)

(***************************************************************************)
(* Part 3 (specification SpecBatch): one batch of entries through one      *)
(* entry point, entry by entry.                                            *)
(*   "legacy": one property of the main loop: scrape, save_pricing_data    *)
(*             (db_operations.py) and the update of the run;               *)
(*   "api":    process_and_save_to_database of the v4 scripts, each record *)
(*             saved and committed by save_pricing_data on its own;        *)
(*   "load":   load_update_records_from_json /                             *)
(*             load_wyndham_update_records_from_json.                      *)
(* An entry is "ok", "nodate" (its date is missing or does not parse) or   *)
(* "fail" (its write raises the database error).  The values written are   *)
(* the business of Part 2; here an entry is known by its position and the  *)
(* record date it resolves to.                                             *)
(***************************************************************************)
EntryKinds == {"ok", "nodate", "fail"}

RECURSIVE SeqsUpTo(_, _)
SeqsUpTo(S, n) ==
    IF n = 0 THEN {<<>>}
    ELSE LET shorter == SeqsUpTo(S, n - 1)
         IN  shorter \cup {Append(q, x) : q \in shorter, x \in S}

InitBatch ==
    /\ IdleLoop
    /\ IdleStore
    /\ IdleCapture
    /\ IdleLogin
    /\ IdleHist
    /\ IdleMap
    /\ IdleRow
    /\ bkind \in {"legacy", "api", "load"}
    /\ bentries \in SeqsUpTo(EntryKinds, MaxRecords)
    \* the loaders map and append, they write nothing
    /\ bkind = "load" => \A i \in 1..Len(bentries) : bentries[i] # "fail"
    \* several entries may resolve to one date: the room classes of a date are
    \* rows of their own, and a date that does not parse becomes start_date
    /\ bdates \in [1..Len(bentries) -> Dates]
    /\ bpc = IF bkind = "legacy" THEN "scrape" ELSE "entries"
    /\ bpos = 1
    /\ saved_count = 0
    /\ success_count = 0
    /\ fail_count = 0
    /\ records = {}
    /\ bok = {}
    /\ bstored = {}
    /\ bret = Null
    /\ brun = [status |-> "running", records_created |-> 0, error_message |-> NoMessage]

\* (mutant) a batch with a failed record makes the run failed
RunOutcome_FailOnPartial(property_results, ret) ==
    IF property_results = 0
    THEN [status |-> "failed", records_created |-> 0, error_message |-> <<"No data scraped">>]
    ELSE IF ret = property_results
         THEN [status |-> "completed", records_created |-> ret, error_message |-> NoMessage]
         ELSE [status |-> "failed", records_created |-> 0, error_message |-> <<"No records saved">>]

\* if property_results:
\*     saved_count = save_pricing_data(...)
\*     if saved_count > 0: update_scraping_run(run_id, 'completed', saved_count)
\*     else: update_scraping_run(run_id, 'failed', 0, 'No records saved')
\* else: update_scraping_run(run_id, 'failed', 0, 'No data scraped')
\* property_results: len(property_results); ret: the saved_count returned
RunOutcome(property_results, ret) ==
    IF property_results = 0
    THEN [status |-> "failed", records_created |-> 0, error_message |-> <<"No data scraped">>]
    ELSE IF ret > 0
         THEN [status |-> "completed", records_created |-> ret, error_message |-> NoMessage]
         ELSE [status |-> "failed", records_created |-> 0, error_message |-> <<"No records saved">>]

\* property_results = scrape_property_data(...); except Exception as e:
\*     update_scraping_run(run_id, 'failed', 0, error_msg)
ScrapeProperty ==
    /\ bkind = "legacy"
    /\ bpc = "scrape"
    /\ \/ \* the scrape raises
          /\ brun' = [status |-> "failed", records_created |-> 0,
                      error_message |-> <<"scrape error">>]
          /\ bpc' = "done"
       \/ \* nothing was scraped
          /\ bentries = <<>>
          /\ brun' = RunOutcome(0, 0)
          /\ bpc' = "done"
       \/ /\ bentries # <<>>
          /\ bpc' = "entries"
          /\ UNCHANGED brun
    /\ UNCHANGED <<bkind, bentries, bdates, bpos, saved_count, success_count, fail_count,
                   records, bok, bstored, bret>>
    /\ UNCHANGED notBatchVars

\* legacy save_pricing_data, one entry of scraped_data_list:
\*   if not record_date: continue
\*   cursor.execute(...); saved_count += 1
\*   except Error: continue
LegacyEntry ==
    /\ bkind = "legacy"
    /\ bpc = "entries"
    /\ bpos <= Len(bentries)
    /\ IF bentries[bpos] = "ok"
       THEN /\ saved_count' = saved_count + 1
            /\ bok' = bok \cup {bpos}
       ELSE UNCHANGED <<saved_count, bok>>
    /\ bpos' = bpos + 1
    /\ UNCHANGED <<bkind, bentries, bdates, bpc, success_count, fail_count, records,
                   bstored, bret, brun>>
    /\ UNCHANGED notBatchVars

\* legacy save_pricing_data after the loop:
\*   try: conn.commit(); return saved_count
\*   except Error: conn.rollback(); return 0
LegacyBatchCommit ==
    /\ bkind = "legacy"
    /\ bpc = "entries"
    /\ bpos > Len(bentries)
    /\ \/ /\ bstored' = bok
          /\ bret' = <<saved_count>>
       \/ \* the commit fails and the transaction is rolled back
          /\ bstored' = {}
          /\ bret' = <<0>>
    /\ bpc' = "finalize"
    /\ UNCHANGED <<bkind, bentries, bdates, bpos, saved_count, success_count, fail_count,
                   records, bok, brun>>
    /\ UNCHANGED notBatchVars

\* the update of the run after save_pricing_data returned
FinalizeRun ==
    /\ bpc = "finalize"
    /\ brun' = RunOutcome(Len(bentries), bret[1])
    /\ bpc' = "done"
    /\ UNCHANGED <<bkind, bentries, bdates, bpos, saved_count, success_count, fail_count,
                   records, bok, bstored, bret>>
    /\ UNCHANGED notBatchVars

\* process_and_save_to_database, one date_obj:
\*   try: record = map_...(date_str=date_obj["date"], ...)
\*        success = db_ops.save_pricing_data(record, scraping_run_id=None)
\*        if success: success_count += 1 else: fail_count += 1
\*   except Exception: fail_count += 1; continue
\* and, the dates exhausted, return (success_count, fail_count)
ApiEntry ==
    /\ bkind = "api"
    /\ bpc = "entries"
    /\ IF bpos <= Len(bentries)
       THEN /\ IF bentries[bpos] = "ok"
               THEN /\ success_count' = success_count + 1
                    /\ bok' = bok \cup {bpos}
                    /\ bstored' = bstored \cup {bpos}
                    /\ UNCHANGED fail_count
               ELSE /\ fail_count' = fail_count + 1
                    /\ UNCHANGED <<success_count, bok, bstored>>
            /\ bpos' = bpos + 1
            /\ UNCHANGED bpc
       ELSE /\ bpc' = "done"
            /\ UNCHANGED <<bpos, success_count, fail_count, bok, bstored>>
    /\ UNCHANGED <<bkind, bentries, bdates, saved_count, records, bret, brun>>
    /\ UNCHANGED notBatchVars

\* load_update_records_from_json, one date_obj:
\*   record = map_json_to_update_record(date_str=date_obj["date"], ...)
\*   records.append(record)
\* (no try: a missing "date" raises KeyError out of the function)
\* and, the dates exhausted, return records
LoadEntry ==
    /\ bkind = "load"
    /\ bpc = "entries"
    /\ IF bpos <= Len(bentries)
       THEN IF bentries[bpos] = "ok"
            THEN /\ records' = records \cup {bpos}
                 /\ bpos' = bpos + 1
                 /\ UNCHANGED bpc
            ELSE /\ bpc' = "raised"
                 /\ UNCHANGED <<records, bpos>>
       ELSE /\ bpc' = "done"
            /\ UNCHANGED <<records, bpos>>
    /\ UNCHANGED <<bkind, bentries, bdates, saved_count, success_count, fail_count,
                   bok, bstored, bret, brun>>
    /\ UNCHANGED notBatchVars

NextBatch ==
    \/ ScrapeProperty
    \/ LegacyEntry
    \/ LegacyBatchCommit
    \/ FinalizeRun
    \/ ApiEntry
    \/ LoadEntry

(***************************************************************************)
(* Part 4 (specification SpecCapture): capture_api_response of the v4      *)
(* scripts, one step per driver call and per log entry.                    *)
(* A log entry is known by what the code does with it:                     *)
(*   "other"   not a Network.responseReceived of a matching URL, or an     *)
(*             entry whose message does not parse;                         *)
(*   "nobody"  a match whose Network.getResponseBody raises, has no        *)
(*             'body', or whose body is not JSON;                          *)
(*   and a match whose body parses to                                      *)
(*   "null"    the JSON null,         "object"  a JSON object,             *)
(*   "empty"   an empty array,        "nodates" an array whose first       *)
(*   element has no 'dates',          "partial" an array whose first       *)
(*   element has 'dates' and a later one has not,                          *)
(*   "valid"   an array of objects each with a 'dates' array;              *)
(*   "unready" a match whose body is such an array but is not retrievable  *)
(*             yet when the entry is read: Network.getResponseBody raises. *)
(***************************************************************************)
\* max_wait, in passes of the while loop
MaxWait == 2
\* entries one get_log call gives at most
MaxLogs == 3

Shapes == {"other", "nobody", "null", "object", "empty", "nodates", "partial", "valid",
           "unready"}

\* the value None, returned
None == <<"None">>

\* the body is an array of property objects each with a dates array
StructurallyValid(shape) == shape = "valid"

\* whether the return json_data of the script s is reached for a match:
\*   choice:  if 'body' in response_body: json_data = json.loads(...); return
\*   wyndham: ... if isinstance(json_data, list) and len(json_data) > 0:
\*                    if 'dates' in json_data[0]: return json_data
Returned(s, shape) ==
    IF s = "choice"
    THEN shape \in {"null", "object", "empty", "nodates", "partial", "valid"}
    ELSE shape \in {"partial", "valid"}

\* the first position of l, from i on, holding a structurally valid match
\* (0: none)
RECURSIVE FirstValidFrom(_, _)
FirstValidFrom(l, i) ==
    IF i > Len(l) THEN 0
    ELSE IF StructurallyValid(l[i]) THEN i
    ELSE FirstValidFrom(l, i + 1)

InitCapture ==
    /\ IdleLoop
    /\ IdleStore
    /\ IdleBatch
    /\ IdleLogin
    /\ IdleHist
    /\ IdleMap
    /\ IdleRow
    /\ script \in {"choice", "wyndham"}
    /\ cpc = "enable"
    /\ elapsed = 0
    /\ logs = <<>>
    /\ entry = 1
    /\ json_data = Null
    /\ first_valid = Null
    /\ valid_logged = FALSE
    /\ driver_error = FALSE

\* driver.execute_cdp_cmd('Network.enable', {}); max_wait = 60; start_time
NetworkEnable ==
    /\ cpc = "enable"
    /\ \/ /\ cpc' = "while"
          /\ UNCHANGED <<json_data, driver_error>>
       \/ \* the driver raises: except Exception: return None
          /\ cpc' = "returned"
          /\ json_data' = None
          /\ driver_error' = TRUE
    /\ UNCHANGED <<script, elapsed, logs, entry, first_valid, valid_logged>>
    /\ UNCHANGED notCaptureVars

\* while time.time() - start_time < max_wait:
\*     logs = driver.get_log('performance')
GetLog ==
    /\ cpc = "while"
    /\ elapsed < MaxWait
    /\ \/ \E l \in SeqsUpTo(Shapes, MaxLogs) :
             /\ logs' = l
             /\ entry' = 1
             /\ cpc' = "for"
             /\ first_valid' = IF first_valid = Null /\ FirstValidFrom(l, 1) > 0
                               THEN <<elapsed, FirstValidFrom(l, 1)>>
                               ELSE first_valid
             /\ valid_logged' = (valid_logged
                                 \/ \E k \in 1..Len(l) : l[k] \in {"valid", "unready"})
             /\ UNCHANGED <<json_data, driver_error>>
       \/ \* the driver raises: except Exception: return None
          /\ cpc' = "returned"
          /\ json_data' = None
          /\ driver_error' = TRUE
          /\ UNCHANGED <<logs, entry, first_valid, valid_logged>>
    /\ UNCHANGED <<script, elapsed>>
    /\ UNCHANGED notCaptureVars

\* the while condition false: logger.warning("Timeout ..."); return None
Timeout ==
    /\ cpc = "while"
    /\ elapsed >= MaxWait
    /\ cpc' = "returned"
    /\ json_data' = None
    /\ UNCHANGED <<script, elapsed, logs, entry, first_valid, valid_logged, driver_error>>
    /\ UNCHANGED notCaptureVars

\* for entry in logs: one entry; every exception inside is a continue.
\* A returned payload is known by its shape and by where it was read.
ForEntry ==
    /\ cpc = "for"
    /\ entry <= Len(logs)
    /\ IF Returned(script, logs[entry])
       THEN /\ json_data' = IF logs[entry] = "null" THEN None
                            ELSE <<logs[entry], elapsed, entry>>
            /\ cpc' = "returned"
            /\ UNCHANGED entry
       ELSE /\ entry' = entry + 1
            /\ UNCHANGED <<json_data, cpc>>
    /\ UNCHANGED <<script, elapsed, logs, first_valid, valid_logged, driver_error>>
    /\ UNCHANGED notCaptureVars

\* the entries exhausted: time.sleep(1)
Sleep ==
    /\ cpc = "for"
    /\ entry > Len(logs)
    /\ elapsed' = elapsed + 1
    /\ cpc' = "while"
    /\ UNCHANGED <<script, logs, entry, json_data, first_valid, valid_logged, driver_error>>
    /\ UNCHANGED notCaptureVars

NextCapture ==
    \/ NetworkEnable
    \/ GetLog
    \/ Timeout
    \/ ForEntry
    \/ Sleep

(***************************************************************************)
(* Part 5 (specification SpecLogin): login_to_choice_max and               *)
(* login_to_wyndham_reviq of the v4 scripts.  A URL is the sequence of its *)
(* parts (scheme, host, path, then the parts of the query string), and     *)
(* `needle in d.current_url` is the search of a part.  The person at the   *)
(* keyboard answers input() when they do: their steps are under no         *)
(* fairness condition, the steps of the function are.                      *)
(***************************************************************************)
\* polls of the WebDriverWait for the authenticated origin before it times out
MaxPolls == 3
\* push notification options the factor page may offer
MaxOptions == 3

IdentityHost == "id.ideasrms.com"

\* BASE_URL without the scheme
PortalHost(p) == IF p = "choice" THEN "choicemax.ideasrms.com" ELSE "reviq.ideasrms.com"

\* LOGIN_URL = "https://id.ideasrms.com/choice/max?continue=https:%2F%2Fchoicemax.ideasrms.com"
LOGIN_URL(p) ==
    <<"https://", IdentityHost, IF p = "choice" THEN "/choice/max" ELSE "/wyndham/reviq",
      "?continue=", "https:%2F%2F", PortalHost(p)>>

\* a page of the identity host whose URL carries no query string
IdentityPage(p) == <<"https://", IdentityHost, "/signin">>

\* a page of the portal
PortalPage(p) == <<"https://", PortalHost(p), "/app">>

Host(url) == url[2]

\* needle in url
Contains(url, needle) == \E i \in 1..Len(url) : url[i] = needle

\* lambda d: "choicemax.ideasrms.com" in d.current_url
\* lambda d: "reviq.ideasrms.com" in d.current_url
LoginComplete(p, url) == Contains(url, PortalHost(p))

\* the stages gone through once the function has moved from one position to
\* another: the form submitted; the factor clicked, which sends the push
\* notification or the code; the code submitted; the identity provider
\* sending the browser to the portal
StagesAfter(from, to, url) ==
    IF from = "start" /\ to = "mfa" THEN <<"credentials">>
    ELSE IF from \in {"mfa", "choose"} /\ to = "wait"
    THEN stages \o <<"factor", "challenge", "awaiting_push">>
    ELSE IF from = "mfa" /\ to = "otp"
    THEN stages \o <<"factor", "challenge", "awaiting_code">>
    ELSE IF from = "submit_otp" /\ to = "wait" THEN Append(stages, "code_submitted")
    ELSE IF from = "wait" /\ url # current_url THEN Append(stages, "verified")
    ELSE stages

InitLogin ==
    /\ IdleLoop
    /\ IdleStore
    /\ IdleBatch
    /\ IdleCapture
    /\ IdleHist
    /\ IdleMap
    /\ IdleRow
    /\ portal \in {"choice", "wyndham"}
    /\ verification_type \in {"PN", "OTP"}
    \* the Wyndham function has the one flow, a code by SMS
    /\ portal = "wyndham" => verification_type = "OTP"
    /\ lpc = "start"
    /\ current_url = <<>>
    /\ push_options = 0
    /\ waited = 0
    /\ login_success = Null
    /\ stages = <<>>

\* driver.get(LOGIN_URL), the SSO button, username, password / Next, submit;
\* a failing click returns False
EnterCredentials ==
    /\ lpc = "start"
    /\ \E url \in {LOGIN_URL(portal), IdentityPage(portal)} :
          current_url' = url
    /\ \/ /\ lpc' = "mfa"
          /\ UNCHANGED login_success
       \/ /\ lpc' = "returned"
          /\ login_success' = <<FALSE>>
    /\ UNCHANGED <<portal, verification_type, push_options, waited>>
    /\ stages' = StagesAfter(lpc, lpc', current_url')
    /\ UNCHANGED notLoginVars

\* the choice of the factor:
\*   choice, "PN": push_options = driver.find_elements(...); several: ask;
\*                 one: click it; none: return False
\*   choice, else: the OTP option, WebDriverWait(driver, 10)
\*   wyndham:      the factor and the SMS button, wait.until
\* an exception or a timeout returns False
SelectFactor ==
    /\ lpc = "mfa"
    /\ \/ /\ portal = "choice" /\ verification_type = "PN"
          /\ \E n \in 0..MaxOptions :
                /\ push_options' = n
                /\ lpc' = IF n > 1 THEN "choose" ELSE IF n = 1 THEN "wait" ELSE "returned"
                /\ login_success' = IF n = 0 THEN <<FALSE>> ELSE login_success
       \/ /\ ~(portal = "choice" /\ verification_type = "PN")
          /\ lpc' = "otp"
          /\ UNCHANGED <<push_options, login_success>>
       \/ /\ lpc' = "returned"
          /\ login_success' = <<FALSE>>
          /\ UNCHANGED push_options
    /\ UNCHANGED <<portal, verification_type, current_url, waited>>
    /\ stages' = StagesAfter(lpc, lpc', current_url')
    /\ UNCHANGED notLoginVars

\* while True: choice = input(f"Select option (1-{len(push_options)}): ")
\* an answer out of range or not a number asks again; a good one is clicked
InputChoice ==
    /\ lpc = "choose"
    /\ \E choice_idx \in 0..MaxOptions :
          IF choice_idx < push_options
          THEN \/ /\ lpc' = "wait"
                  /\ UNCHANGED login_success
               \/ \* the click raises
                  /\ lpc' = "returned"
                  /\ login_success' = <<FALSE>>
          ELSE UNCHANGED <<lpc, login_success>>
    /\ UNCHANGED <<portal, verification_type, current_url, push_options, waited>>
    /\ stages' = StagesAfter(lpc, lpc', current_url')
    /\ UNCHANGED notLoginVars

\* otp_code = input("Enter OTP code: ") / otp = input("Enter the verification
\* code ...")
InputOtp ==
    /\ lpc = "otp"
    /\ lpc' = "submit_otp"
    /\ UNCHANGED <<portal, verification_type, current_url, push_options, waited,
                   login_success>>
    /\ stages' = StagesAfter(lpc, lpc', current_url')
    /\ UNCHANGED notLoginVars

\* the code typed into the field and Verify clicked, each found by a wait of
\* 10 (20) seconds; an exception or a timeout returns False
SubmitOtp ==
    /\ lpc = "submit_otp"
    /\ \/ /\ lpc' = "wait"
          /\ UNCHANGED login_success
       \/ /\ lpc' = "returned"
          /\ login_success' = <<FALSE>>
    /\ UNCHANGED <<portal, verification_type, current_url, push_options, waited>>
    /\ stages' = StagesAfter(lpc, lpc', current_url')
    /\ UNCHANGED notLoginVars

\* WebDriverWait(driver, 130).until(lambda d: "choicemax.ideasrms.com" in
\* d.current_url) / wait.until(lambda d: "reviq.ideasrms.com" in d.current_url):
\* one poll; between polls the browser may have been redirected to the portal
PollLogin ==
    /\ lpc = "wait"
    /\ IF LoginComplete(portal, current_url)
       THEN /\ lpc' = "ready"
            /\ UNCHANGED <<current_url, waited, login_success>>
       ELSE IF waited < MaxPolls
       THEN /\ waited' = waited + 1
            /\ \E url \in {current_url, PortalPage(portal)} : current_url' = url
            /\ UNCHANGED <<lpc, login_success>>
       ELSE \* TimeoutException: return False
            /\ lpc' = "returned"
            /\ login_success' = <<FALSE>>
            /\ UNCHANGED <<current_url, waited>>
    /\ UNCHANGED <<portal, verification_type, push_options>>
    /\ stages' = StagesAfter(lpc, lpc', current_url')
    /\ UNCHANGED notLoginVars

\* WebDriverWait(driver, 20).until(readyState == "complete"); time.sleep(3);
\* return True -- or the wait times out: return False
ReadyState ==
    /\ lpc = "ready"
    /\ lpc' = "returned"
    /\ \E complete \in BOOLEAN : login_success' = <<complete>>
    /\ UNCHANGED <<portal, verification_type, current_url, push_options, waited>>
    /\ stages' = StagesAfter(lpc, lpc', current_url')
    /\ UNCHANGED notLoginVars

\* the steps of the function itself
LoginSteps ==
    \/ EnterCredentials
    \/ SelectFactor
    \/ SubmitOtp
    \/ PollLogin
    \/ ReadyState

NextLogin ==
    \/ LoginSteps
    \/ InputChoice
    \/ InputOtp

(***************************************************************************)
(* Part 6 (specification SpecHist): WyndhamDBOperations.get_historical_data*)
(* one query per step.  A date is a day number, its day of the week the    *)
(* number modulo 7; wyndham_old_records is known by the <<property, date>> *)
(* of its rows.                                                            *)
(***************************************************************************)
\* timedelta(days=365)
DaysBack == 365
\* target dates asked for: FirstTarget .. FirstTarget + MaxTarget
MaxTarget == 1
FirstTarget == 400
\* the rows of the property lie within MaxSpread days of the anchor
MaxSpread == 4

\* (mutant) the later date tried before the earlier one
search_offsets_LaterFirst == <<0, 1, -1, 2, -2, 3, -3>>

\* search_offsets = [0, -1, 1, -2, 2, -3, 3]
search_offsets == <<0, -1, 1, -2, 2, -3, 3>>

\* last_year_date = target_date - timedelta(days=365)
last_year_date(t) == t - DaysBack

\* search_date = last_year_date + timedelta(days=offset)
search_date(t, i) == last_year_date(t) + search_offsets[i]

\* SELECT ... FROM wyndham_old_records WHERE property_id = %s AND date = %s
\* LIMIT 1; cursor.fetchone(): the row (its property and its date), or Null
\* for None
fetchone(rows, p, d) == IF <<p, d>> \in rows THEN <<p, d>> ELSE Null

\* result['date']
RowDate(row) == row[2]

Weekday(d) == d % 7

InitHist ==
    /\ IdleLoop
    /\ IdleStore
    /\ IdleBatch
    /\ IdleCapture
    /\ IdleLogin
    /\ IdleMap
    /\ IdleRow
    /\ property_id = 1
    /\ target_date \in FirstTarget..(FirstTarget + MaxTarget)
    /\ \E own \in SUBSET ((0 - MaxSpread)..MaxSpread), other \in BOOLEAN :
          old_records = {<<1, last_year_date(target_date) + o>> : o \in own}
                        \cup (IF other THEN {<<2, last_year_date(target_date)>>} ELSE {})
    /\ hpc = "search"
    /\ offset_idx = 1
    /\ result = Null
    /\ query_error = FALSE

\* for offset in search_offsets: cursor.execute(query, ...);
\* result = cursor.fetchone(); if result: return result
\* and, the offsets exhausted, return None; except MySQLError: return None
SearchOffset ==
    /\ hpc = "search"
    /\ \/ /\ offset_idx <= Len(search_offsets)
          /\ LET row == fetchone(old_records, property_id, search_date(target_date, offset_idx))
             IN  IF row # Null
                 THEN /\ result' = row
                      /\ hpc' = "returned"
                      /\ UNCHANGED offset_idx
                 ELSE /\ offset_idx' = offset_idx + 1
                      /\ UNCHANGED <<result, hpc>>
          /\ UNCHANGED query_error
       \/ \* the query raises MySQLError
          /\ offset_idx <= Len(search_offsets)
          /\ result' = None
          /\ hpc' = "returned"
          /\ query_error' = TRUE
          /\ UNCHANGED offset_idx
       \/ /\ offset_idx > Len(search_offsets)
          /\ result' = None
          /\ hpc' = "returned"
          /\ UNCHANGED <<offset_idx, query_error>>
    /\ UNCHANGED <<property_id, target_date, old_records>>
    /\ UNCHANGED notHistVars

NextHist == SearchOffset

(***************************************************************************)
(* Part 7 (specification SpecMap): map_json_to_update_record and           *)
(* map_wyndham_json_to_update_record with the four places that call them,  *)
(* and the percentages the legacy save_pricing_data stores.                *)
(* A field of the raw entry is Null when the key is absent or its value is *)
(* null (date_obj.get gives None for both), else <<v>>; for a wrapper      *)
(* {"value": v} it is <<v>>.  The two mappers are the same statement for   *)
(* statement in the fields modelled; ly_adr is not modelled here.  A       *)
(* Decimal is the fraction [num, den].                                     *)
(***************************************************************************)
\* largest percentage a payload carries
MaxPercent == 100
\* largest room count a payload carries
MaxRooms == 2
\* ticks of the clock between two readings of datetime.utcnow()
MaxClock == 1

Callers == {"choice_load", "choice_v4", "wyndham_load", "wyndham_v4"}

Opt(S) == {Null} \cup {<<v>> : v \in S}

BaseEntry ==
    [date |-> <<1>>, price |-> Null, previousRate |-> Null, previousLrv |-> Null,
     priceDiff |-> Null, compSetAvg |-> Null, onBookPercent |-> Null,
     forecastPercent |-> Null, lyBookingPercent |-> Null, arrivals |-> Null,
     departures |-> Null, physicalCapacity |-> Null, outOfOrder |-> Null,
     onBook |-> Null, lyAdr |-> Null, lyRevenue |-> Null]

\* the entries mapped: every combination of the date and the price fields,
\* of the percentages, and of the counts
PriceEntries ==
    {[BaseEntry EXCEPT !.date = d, !.price = a, !.previousRate = b, !.previousLrv = c,
                       !.priceDiff = e, !.compSetAvg = f] :
        d \in Opt({1}), a \in Opt({0, 1}), b \in Opt({0, 1}), c \in Opt({1}),
        e \in Opt({0, 1}), f \in Opt({0, 1})}

PercentEntries ==
    {[BaseEntry EXCEPT !.onBookPercent = a, !.forecastPercent = b, !.lyBookingPercent = c] :
        a \in Opt(0..MaxPercent), b \in Opt({0, 50}), c \in Opt({100})}

CountEntries ==
    {[BaseEntry EXCEPT !.physicalCapacity = a, !.outOfOrder = b, !.onBook = c,
                       !.arrivals = d, !.departures = e] :
        a \in Opt(0..MaxRooms), b \in Opt(0..MaxRooms), c \in Opt(0..MaxRooms),
        d \in Opt({0, 1}), e \in Opt({0})}

\* the entries with every combination of the last-year figures
LyEntries ==
    {[BaseEntry EXCEPT !.lyAdr = a, !.lyRevenue = b, !.lyBookingPercent = c,
                       !.physicalCapacity = e] :
        a \in Opt({45}), b \in Opt({0, 90}), c \in Opt({0, 50}), e \in Opt(0..MaxRooms)}

\* the scraped rows of the legacy scraper: 'Occ. on Books', 'Occ. Forecast'
\* and 'Occ. LY', each Null or the percentage of a text like '45 (67%)'
LegacyRows ==
    {[occ_books |-> a, occ_forecast |-> b, occ_ly |-> c] :
        a \in Opt({0, 67}), b \in Opt({0, 67}), c \in Opt({0, 67})}

\* (mutant) a zero percentage taken for an absent one
percent_to_decimal_Falsy(value) ==
    IF value = Null \/ value = <<0>> THEN Null ELSE <<[num |-> value[1], den |-> 100]>>

\* if value is None: return None
\* return Decimal(value) / Decimal(100)
percent_to_decimal(value) ==
    IF value = Null THEN Null ELSE <<[num |-> value[1], den |-> 100]>>

\* (mutant) a zero count taken for an absent one
avl_rooms_Truthy(physicalCapacity, outOfOrder, onBook) ==
    IF physicalCapacity \notin {Null, <<0>>} /\ outOfOrder \notin {Null, <<0>>}
         /\ onBook \notin {Null, <<0>>}
    THEN <<physicalCapacity[1] - outOfOrder[1] - onBook[1]>>
    ELSE Null

\* avl_rooms=(physicalCapacity - outOfOrder - onBook)
\* if physicalCapacity is not None and outOfOrder is not None and onBook is not None
\* else None
avl_rooms(physicalCapacity, outOfOrder, onBook) ==
    IF physicalCapacity # Null /\ outOfOrder # Null /\ onBook # Null
    THEN <<physicalCapacity[1] - outOfOrder[1] - onBook[1]>>
    ELSE Null

\* (mutant) the quotient taken whenever the three operands are present
ly_adr_Unguarded(lyRevenue, lyBookingPercent, physicalCapacity) ==
    IF lyRevenue # Null /\ lyBookingPercent # Null /\ physicalCapacity # Null
    THEN <<[num |-> lyRevenue[1] * 100,
            den |-> lyBookingPercent[1] * physicalCapacity[1]]>>
    ELSE Null

\* ly_adr = None
\* if lyRevenue is not None and lyBookingPercent is not None
\*    and physicalCapacity is not None:
\*     ly_occupied_rooms = Decimal(lyBookingPercent) / Decimal(100)
\*                         * Decimal(physicalCapacity)
\*     if ly_occupied_rooms > 0: ly_adr = lyRevenue / ly_occupied_rooms
ly_adr(lyRevenue, lyBookingPercent, physicalCapacity) ==
    IF lyRevenue # Null /\ lyBookingPercent # Null /\ physicalCapacity # Null
         /\ lyBookingPercent[1] * physicalCapacity[1] > 0
    THEN <<[num |-> lyRevenue[1] * 100,
            den |-> lyBookingPercent[1] * physicalCapacity[1]]>>
    ELSE Null

\* the record map_json_to_update_record returns for the arguments a, utcnow()
\* giving now; map_wyndham_json_to_update_record differs in ly_adr alone
map_json_to_update_record(a, now) ==
    [record_timestamp |-> now,
     record_date |-> a.date_str,
     standard_price |-> a.price_value,
     standard_previous_price |-> a.previousRate_value,
     standard_price_change |-> a.priceDiff_value,
     competitor_set_avg_price |-> a.compSetAvg,
     occupancy |-> percent_to_decimal(a.onBookPercent),
     forecasted_occupancy |-> percent_to_decimal(a.forecastPercent),
     ly_occupancy |-> percent_to_decimal(a.lyBookingPercent),
     ly_adr |-> IF a.lyAdr = Null THEN Null ELSE <<[num |-> a.lyAdr[1], den |-> 1]>>,
     on_the_books_occ |-> percent_to_decimal(a.onBookPercent),
     arrivals_forecast |-> a.arrivals,
     departure_forecast |-> a.departures,
     total_rooms |-> a.physicalCapacity,
     ooo |-> a.outOfOrder,
     otb_rooms |-> a.onBook,
     avl_rooms |-> avl_rooms(a.physicalCapacity, a.outOfOrder, a.onBook),
     created_at |-> now,
     updated_at |-> now]

\* ly_adr=ly_adr, the quotient computed from lyRevenue
map_wyndham_json_to_update_record(a, now) ==
    [map_json_to_update_record(a, now) EXCEPT
        !.ly_adr = ly_adr(a.lyRevenue, a.lyBookingPercent, a.physicalCapacity)]

\* the mapper a caller applies
Mapper(caller, a, now) ==
    IF caller \in {"wyndham_load", "wyndham_v4"}
    THEN map_wyndham_json_to_update_record(a, now)
    ELSE map_json_to_update_record(a, now)

\* the test a caller puts before Decimal(str(date_obj["previousRate"]["value"])):
\*   load_update_records_from_json:  if date_obj.get("previousLrv") is not None
\*   the other three:                if date_obj.get("previousRate")
ReadsPreviousRate(caller, o) ==
    IF caller = "choice_load" THEN o.previousLrv # Null ELSE o.previousRate # Null

\* the evaluation of the arguments raises: date_obj["date"] of an entry
\* without a date, date_obj["previousRate"]["value"] without a previousRate
ArgumentsRaise(caller, o) ==
    \/ o.date = Null
    \/ ReadsPreviousRate(caller, o) /\ o.previousRate = Null

\* the arguments a caller passes for the entry o
Arguments(caller, o) ==
    [date_str |-> o.date,
     price_value |-> o.price,
     previousRate_value |-> IF ReadsPreviousRate(caller, o) THEN o.previousRate ELSE Null,
     priceDiff_value |-> o.priceDiff,
     compSetAvg |-> o.compSetAvg,
     onBookPercent |-> o.onBookPercent,
     forecastPercent |-> o.forecastPercent,
     lyBookingPercent |-> o.lyBookingPercent,
     \* the Choice callers pass lyAdr, the Wyndham callers lyRevenue
     lyAdr |-> IF caller \in {"choice_load", "choice_v4"} THEN o.lyAdr ELSE Null,
     lyRevenue |-> IF caller \in {"wyndham_load", "wyndham_v4"} THEN o.lyRevenue ELSE Null,
     arrivals |-> o.arrivals,
     departures |-> o.departures,
     physicalCapacity |-> o.physicalCapacity,
     outOfOrder |-> o.outOfOrder,
     onBook |-> o.onBook]

\* parse_occupancy('45 (67.5%)') = (45, 67.5): the percentage as it is written
parse_occupancy_pct(occ) ==
    IF occ = Null THEN Null ELSE <<[num |-> occ[1], den |-> 1]>>

InitMap ==
    /\ IdleLoop
    /\ IdleStore
    /\ IdleBatch
    /\ IdleCapture
    /\ IdleLogin
    /\ IdleHist
    /\ IdleRow
    /\ mkind \in Callers \cup {"legacy"}
    /\ IF mkind = "legacy"
       THEN raw \in LegacyRows
       ELSE raw \in PriceEntries \cup PercentEntries \cup CountEntries \cup LyEntries
    /\ utcnow = 0
    /\ mpc = "start"
    /\ record = Null
    /\ record_again = Null

\* record = map_json_to_update_record(property_uuid=..., date_str=date_obj["date"], ...)
MapEntry ==
    /\ mkind \in Callers
    /\ mpc = "start"
    /\ IF ArgumentsRaise(mkind, raw)
       THEN /\ mpc' = "raised"
            /\ UNCHANGED record
       ELSE /\ mpc' = "mapped"
            /\ record' = <<Mapper(mkind, Arguments(mkind, raw), utcnow)>>
    /\ UNCHANGED <<mkind, raw, utcnow, record_again>>
    /\ UNCHANGED notMapVars

\* legacy save_pricing_data: occ_books_val, occ_books_pct = parse_occupancy(...)
\* and the INSERT of occ_books_pct, occ_forecast_pct, occ_ly_pct as occupancy,
\* forecasted_occupancy, ly_occupancy and on_the_books_occ
SaveLegacyRow ==
    /\ mkind = "legacy"
    /\ mpc = "start"
    /\ record' = <<[occupancy |-> parse_occupancy_pct(raw.occ_books),
                    forecasted_occupancy |-> parse_occupancy_pct(raw.occ_forecast),
                    ly_occupancy |-> parse_occupancy_pct(raw.occ_ly),
                    on_the_books_occ |-> parse_occupancy_pct(raw.occ_books)]>>
    /\ mpc' = "mapped"
    /\ UNCHANGED <<mkind, raw, utcnow, record_again>>
    /\ UNCHANGED notMapVars

\* time passes
Tick ==
    /\ mkind \in Callers
    /\ mpc = "mapped"
    /\ utcnow < MaxClock
    /\ utcnow' = utcnow + 1
    /\ UNCHANGED <<mkind, raw, mpc, record, record_again>>
    /\ UNCHANGED notMapVars

\* the same entry mapped once more
MapAgain ==
    /\ mkind \in Callers
    /\ mpc = "mapped"
    /\ record_again' = <<Mapper(mkind, Arguments(mkind, raw), utcnow)>>
    /\ mpc' = "again"
    /\ UNCHANGED <<mkind, raw, utcnow, record>>
    /\ UNCHANGED notMapVars

NextMap ==
    \/ MapEntry
    \/ SaveLegacyRow
    \/ Tick
    \/ MapAgain

(***************************************************************************)
(* Part 8 (specification SpecRow): the columns of a row of update_records  *)
(* that an upsert sets once or sets again.  One step is one committed      *)
(* INSERT ... ON DUPLICATE KEY UPDATE of the legacy save_pricing_data or   *)
(* of WyndhamDBOperations.save_pricing_data (a statement that fails stores *)
(* nothing), or one call of calculate_revenue_per_room, which no writer    *)
(* calls: an execution is a sequence of upserts or the one call.  All rows *)
(* belong to property 1; a quotient is the fraction [num, den].  The       *)
(* legacy INSERT names no record_timestamp: the row gets the column's      *)
(* default, written Null.                                                  *)
(***************************************************************************)
\* upserts of one execution
MaxUpserts == 3

\* record_date.strftime("%A")
strftime_A(d) ==
    <<"Sunday", "Monday", "Tuesday", "Wednesday", "Thursday", "Friday",
      "Saturday">>[Weekday(d) + 1]

\* scrape_property_data: day_of_week, date_only = date_text.split(",", 1), and
\* day_of_week = "" for a date_text without a comma; the text is the day the
\* grid shows for the row, whichever date date_only ends up as
ScrapedDays == {""} \cup {strftime_A(d) : d \in Dates}

\* the scraped entries saved: every day text with every date, and every
\* Revenue and Available Rooms
LegacyData ==
    {[date |-> d, day_of_week |-> t, revenue |-> Null, available_rooms |-> Null] :
        d \in Dates, t \in ScrapedDays}
    \cup
    {[date |-> d, day_of_week |-> strftime_A(d), revenue |-> a, available_rooms |-> b] :
        d \in Dates, a \in Opt({6}), b \in Opt({0, 3})}

\* revenue_per_room = None
\* if revenue is not None and available_rooms is not None and available_rooms > 0:
\*     revenue_per_room = revenue / available_rooms
revenue_per_room(revenue, available_rooms) ==
    IF revenue # Null /\ available_rooms # Null /\ available_rooms[1] > 0
    THEN <<[num |-> revenue[1], den |-> available_rooms[1]]>>
    ELSE Null

\* if revenue is not None and total_rooms > 0: return float(revenue) / total_rooms
\* else: return None
\* (None > 0 raises TypeError)
calculate_revenue_per_room(revenue, total_rooms) ==
    IF revenue = Null THEN [raised |-> FALSE, value |-> Null]
    ELSE IF total_rooms = Null THEN [raised |-> TRUE, value |-> Null]
    ELSE IF total_rooms[1] > 0
    THEN [raised |-> FALSE, value |-> <<[num |-> revenue[1], den |-> total_rooms[1]]>>]
    ELSE [raised |-> FALSE, value |-> Null]

\* the VALUES of the legacy INSERT, NOW() giving t
LegacyRowValues(run, data, t) ==
    [property_id |-> 1,
     scraping_run_id |-> <<run>>,
     record_timestamp |-> Null,
     record_date |-> data.date,
     day_of_week |-> data.day_of_week,
     revenue_per_room |-> revenue_per_room(data.revenue, data.available_rooms),
     created_at |-> t,
     updated_at |-> t]

\* the VALUES of the INSERT of WyndhamDBOperations.save_pricing_data for the
\* record the mappers make of the date d (scraping_run_id=None,
\* record_timestamp=datetime.utcnow(), day_of_week=record_date.strftime("%A"),
\* revenue_per_room=None), NOW() giving t
ApiRowValues(d, t) ==
    [property_id |-> 1,
     scraping_run_id |-> Null,
     record_timestamp |-> <<t>>,
     record_date |-> d,
     day_of_week |-> strftime_A(d),
     revenue_per_room |-> Null,
     created_at |-> t,
     updated_at |-> t]

\* (mutant) every column takes the new value, as REPLACE INTO would do
OnDuplicateKeyUpdateRow_Replace(r, v) == v

\* ON DUPLICATE KEY UPDATE ..., revenue_per_room = VALUES(revenue_per_room),
\* ..., updated_at = NOW()
OnDuplicateKeyUpdateRow(r, v) ==
    [r EXCEPT !.revenue_per_room = v.revenue_per_room,
              !.updated_at = v.updated_at]

\* the unique key (property_id, record_date) of the table is hit
Duplicate(rows, v) ==
    \E r \in rows : r.property_id = v.property_id /\ r.record_date = v.record_date

\* INSERT INTO update_records (...) VALUES (...) ON DUPLICATE KEY UPDATE ...
UpsertRow(rows, v) ==
    IF Duplicate(rows, v)
    THEN {IF r.property_id = v.property_id /\ r.record_date = v.record_date
          THEN OnDuplicateKeyUpdateRow(r, v) ELSE r : r \in rows}
    ELSE rows \cup {v}

InitRow ==
    /\ IdleLoop
    /\ IdleStore
    /\ IdleBatch
    /\ IdleCapture
    /\ IdleLogin
    /\ IdleHist
    /\ IdleMap
    /\ urows = {}
    /\ db_now = 0
    /\ duplicate = FALSE
    /\ scraped = [d \in Dates |-> Null]
    /\ rpr_call = Null

\* legacy save_pricing_data(run_id, property_id, [data]): the statement of one
\* entry, committed
SaveLegacyData ==
    /\ rpr_call = Null
    /\ db_now < MaxUpserts
    /\ \E data \in LegacyData :
          LET v == LegacyRowValues(db_now + 1, data, db_now + 1)
          IN  /\ urows' = UpsertRow(urows, v)
              /\ duplicate' = Duplicate(urows, v)
              /\ scraped' = [scraped EXCEPT ![data.date] =
                                <<[revenue |-> data.revenue,
                                   available_rooms |-> data.available_rooms]>>]
    /\ db_now' = db_now + 1
    /\ UNCHANGED rpr_call
    /\ UNCHANGED notRowVars

\* process_and_save_to_database: record = map_..._json_to_update_record(...);
\* db_ops.save_pricing_data(record, scraping_run_id=None); the payload states
\* neither a revenue nor the rooms available
SaveApiRecord ==
    /\ rpr_call = Null
    /\ db_now < MaxUpserts
    /\ \E d \in Dates :
          LET v == ApiRowValues(d, db_now + 1)
          IN  /\ urows' = UpsertRow(urows, v)
              /\ duplicate' = Duplicate(urows, v)
              /\ scraped' = [scraped EXCEPT ![d] =
                                <<[revenue |-> Null, available_rooms |-> Null]>>]
    /\ db_now' = db_now + 1
    /\ UNCHANGED rpr_call
    /\ UNCHANGED notRowVars

\* calculate_revenue_per_room(revenue, total_rooms)
CalculateRevenuePerRoom ==
    /\ rpr_call = Null
    /\ db_now = 0
    /\ \E revenue \in Opt({0, 6}), total_rooms \in Opt({0, 3}) :
          rpr_call' = <<[revenue |-> revenue, total_rooms |-> total_rooms,
                         outcome |-> calculate_revenue_per_room(revenue, total_rooms)]>>
    /\ UNCHANGED <<urows, db_now, duplicate, scraped>>
    /\ UNCHANGED notRowVars

NextRow ==
    \/ SaveLegacyData
    \/ SaveApiRecord
    \/ CalculateRevenuePerRoom

vars == <<loopVars, storeVars, batchVars, captureVars, loginVars, histVars, mapVars, rowVars>>

Init == InitLoop /\ IdleStore /\ IdleBatch /\ IdleCapture /\ IdleLogin /\ IdleHist /\ IdleMap /\ IdleRow

Next == NextLoop

Spec == Init /\ [][Next]_vars

SpecStore == InitStore /\ [][NextStore]_vars

SpecBatch == InitBatch /\ [][NextBatch]_vars

\* the function is sequential code: a step that can be taken is taken
SpecCapture == InitCapture /\ [][NextCapture]_vars /\ WF_vars(NextCapture)

\* the function runs on; nothing makes the person at the keyboard answer
SpecLogin == InitLogin /\ [][NextLogin]_vars /\ WF_vars(LoginSteps)

SpecHist == InitHist /\ [][NextHist]_vars

SpecMap == InitMap /\ [][NextMap]_vars

SpecRow == InitRow /\ [][NextRow]_vars

(***************************************************************************)
(* Claims about the main execution (checked under Spec)                    *)
(***************************************************************************)
Terminal == {"completed", "failed"}

RunIds == 1..Len(runs)

C8_TerminalStatusIsFinal ==
    [][\A r \in RunIds :
          runs[r].status \in Terminal =>
              /\ r <= Len(runs')
              /\ runs'[r].status = runs[r].status]_vars

\* a completed run of a platform whose failure handler has run afterwards
C8_Witness ==
    \E r, h \in RunIds :
        /\ r < h
        /\ runs[r].status = "completed"
        /\ runs[h].origin = "handler"
        /\ runs[h].platform = runs[r].platform

\* C9: the platforms returned by get_platforms_for_scraping are attempted
\* once each, in order, whatever happened to the earlier ones.
C9_EveryPlatformAttemptedOnce ==
    mode = "local" =>
        /\ Len(attempted) <= NumPlatforms
        /\ \A k \in 1..Len(attempted) : attempted[k] = k
        /\ pc = "done" => Len(attempted) = NumPlatforms

\* the loop has ended although the first platform failed to log in
C9_Witness ==
    /\ mode = "local"
    /\ pc = "done"
    /\ login[1] = "failed"
    /\ Len(attempted) = NumPlatforms
    /\ login[NumPlatforms] = "ok"

\* C10: every session the pipeline starts is quit before the next one is
\* started and before the pipeline ends; at most one is open at any time.
C10_SessionsClosed ==
    /\ Cardinality(open) <= 1
    /\ pc \in {"create_browser", "done"} => open = {}

(***************************************************************************)
(* Claims about the writers of update_records (checked under SpecStore)    *)
(***************************************************************************)
RowsOf(d) == {r \in store : r.record_date = d}

\* the columns of the ON DUPLICATE KEY UPDATE list
ComparableFields(v) ==
    <<v.standard_price, v.standard_previous_price, v.standard_price_change>>

\* the change a row must carry against the rows stored before its date
RecomputedChange(r) ==
    StandardPriceChange(r.standard_price,
                        get_previous_standard_price(store, r.record_date))

\* C3: the standard_price_change a writer stores is the new price minus the
\* price of the most recent earlier stored record with a price, whatever
\* priceDiff the payload carried; stated here for the row the API-capture
\* writer committed last (nothing was committed after it), when it has a
\* price and an earlier record with a price is stored.
C3_StoredChangeIsRecomputed ==
    (lastKey # 0 /\ wkind[lastStmt[lastKey][1].by] = "api") =>
        \A r \in RowsOf(lastKey) :
            (r.standard_price # Null
                /\ get_previous_standard_price(store, lastKey) # Null)
            => r.standard_price_change = RecomputedChange(r)

\* C4: after any committed upserts of the legacy writer, every stored record
\* with a price that has an earlier stored record with a price carries
\* standard_price_change = its price minus that earlier price.
C4_DeltaConsistentWithHistory ==
    (\A w \in Writers : wkind[w] = "legacy") =>
        \A r \in store :
            (r.standard_price # Null
                /\ get_previous_standard_price(store, r.record_date) # Null)
            => r.standard_price_change = RecomputedChange(r)

C6_ConcurrentWritersConverge ==
    (\A w \in Writers : wpc[w] = "done" /\ wkind[w] = "legacy") =>
        \A d \in wrote[1] \cap wrote[2] :
            wrote[lastStmt[d][1].by] = {d} =>
                /\ Cardinality(RowsOf(d)) = 1
                /\ \A r \in RowsOf(d) :
                      /\ r.standard_previous_price =
                            get_previous_standard_price(store, d)
                      /\ r.standard_price_change = RecomputedChange(r)

\* C11: every temporary directory create_browser made for a group is removed
\* by the time the group has finished (the next group starts, or the loop
\* has ended).
C11_TempDirsReleased ==
    pc \in {"create_browser", "done"} => temp_dirs = {}


NumberOf(kind) == Cardinality({i \in 1..Len(bentries) : bentries[i] = kind})

\* the batch has been through its entry point
BatchOver == bpc \in {"done", "raised"}

\* C12: in a batch where the write of some record failed, every record whose
\* own write succeeded is stored when the batch is over, and where successes
\* and failures are counted they add up to the records attempted.
C12_FailuresIsolated ==
    (/\ bkind \in {"legacy", "api"}
     /\ BatchOver
     /\ NumberOf("fail") > 0
     /\ bkind = "legacy" => bret # Null)
    => /\ bok \subseteq bstored
       /\ bkind = "api" => success_count + fail_count = Len(bentries)

\* C13: with every write succeeding, a batch of n entries of which k have no
\* date ends with n - k records, k entries skipped and every entry processed,
\* through process_and_save_to_database and through the file loaders alike.
C13_DatelessEntriesSkipped ==
    (/\ bkind \in {"api", "load"}
     /\ BatchOver
     /\ NumberOf("fail") = 0)
    => /\ bpc = "done"
       /\ bpos = Len(bentries) + 1
       /\ bkind = "api" => /\ Cardinality(bstored) = Len(bentries) - NumberOf("nodate")
                           /\ fail_count = NumberOf("nodate")
       /\ bkind = "load" => Cardinality(records) = Len(bentries) - NumberOf("nodate")

ReturnedPayload == cpc = "returned" /\ json_data # None

\* structurally valid matches among the entries get_log gave last
ValidIn(l) == {i \in 1..Len(l) : StructurallyValid(l[i])}

\* C15: a payload capture_api_response returns is structurally valid: an
\* array of property objects each of which has a dates array.
C15_ReturnedPayloadIsValid ==
    ReturnedPayload => StructurallyValid(json_data[1])

\* C16: when the log holds several matching responses with structurally
\* valid bodies, the body returned is the first of them in log order, and the
\* function returns at that entry.
C16_FirstValidMatchWins ==
    (/\ cpc = "returned"
     /\ ~driver_error
     /\ Cardinality(ValidIn(logs)) >= 2)
    => /\ json_data = <<"valid", elapsed, FirstValidFrom(logs, 1)>>
       /\ entry = FirstValidFrom(logs, 1)

\* C17: capture_api_response always returns, and it returns None exactly when
\* max_wait has elapsed with no structurally valid matching payload observed.
C17_NoneExactlyOnTimeout ==
    /\ <>(cpc = "returned")
    /\ [](cpc = "returned" =>
            (json_data = None <=> (elapsed >= MaxWait /\ first_valid = Null)))


\* C18: when the capture of a run yields no payload, the run is marked failed
\* with a reason and no pricing record is persisted for it.
C18_CaptureFailureFailsRun ==
    (mode = "v4" /\ pc = "done" /\ captured = "nothing")
    => /\ \E id \in RunIds : /\ runs[id].status = "failed"
                             /\ runs[id].error_message # NoMessage
       /\ \A p \in Platforms : written[p] = 0


\* C19: login reports success only with the session on the authenticated
\* origin; on the identity host, whatever the query string, it never does.
C19_SuccessOnlyOnPortalHost ==
    login_success = <<TRUE>> => Host(current_url) = PortalHost(portal)

\* C20: every call of the login function eventually returns, authenticated
\* or failed.
C20_LoginEventuallyEnds ==
    <>(lpc = "returned")


\* the offsets within three days of the anchor at which the property has a row
FoundAt == {d \in (0 - 3)..3 :
               <<property_id, last_year_date(target_date) + d>> \in old_records}

Abs(n) == IF n < 0 THEN 0 - n ELSE n

\* d comes no later than e in the order 0, -1, +1, -2, +2, -3, +3: it is
\* closer to the anchor or, at the same distance, the earlier date
Before(d, e) == Abs(d) < Abs(e) \/ (Abs(d) = Abs(e) /\ d <= e)

\* the search has returned without a query having failed
Searched == hpc = "returned" /\ ~query_error

\* C21 (as stated): get_historical_data returns the row at anchor + d, d the
\* first offset of [0, -1, +1, -2, +2, -3, +3] with a row of the property, and
\* None exactly when there is no row at any of the seven dates.
C21_FirstOffsetWins ==
    hpc = "returned"
    => /\ result = None <=> FoundAt = {}
       /\ result # None =>
             \E d \in FoundAt :
                /\ \A e \in FoundAt : Before(d, e)
                /\ result = <<property_id, last_year_date(target_date) + d>>

\* C21 (amended): the same, None being returned also when a query fails.
C21_FirstOffsetWinsOrError ==
    hpc = "returned"
    => /\ result = None <=> (FoundAt = {} \/ query_error)
       /\ result # None =>
             \E d \in FoundAt :
                /\ \A e \in FoundAt : Before(d, e)
                /\ result = <<property_id, last_year_date(target_date) + d>>

\* rows only at anchor + 2 and anchor - 1: the row of anchor - 1 is returned
C21_Witness ==
    /\ Searched
    /\ {r[2] : r \in {x \in old_records : x[1] = property_id}}
          = {last_year_date(target_date) + 2, last_year_date(target_date) - 1}
    /\ result = <<property_id, last_year_date(target_date) - 1>>

\* C22: a row get_historical_data returns is of the same day of the week as
\* target_date.
C22_SameWeekday ==
    (hpc = "returned" /\ result # None)
    => Weekday(RowDate(result)) = Weekday(target_date)


\* an entry has been mapped by one of the callers
Mapped == mkind \in Callers /\ mpc \in {"mapped", "again"}

\* a fraction within [0, 1]
InUnit(q) == 0 <= q.num /\ q.num <= q.den

PercentFields == {"occupancy", "forecasted_occupancy", "ly_occupancy", "on_the_books_occ"}

\* C23: every percentage field a writer stores is null or a fraction within
\* [0, 1].
C23_PercentagesAreFractions ==
    record # Null
    => \A f \in PercentFields : record[1][f] # Null => InUnit(record[1][f][1])

\* C24: percent_to_decimal(p) is p/100, within [0, 1] for p in 0..100, and
\* percent_to_decimal(None) is None; 0 gives 0, not None.
C24_PercentToDecimal ==
    Mapped
    => /\ raw.onBookPercent = Null => record[1].occupancy = Null
       /\ raw.onBookPercent # Null =>
             /\ record[1].occupancy = <<[num |-> raw.onBookPercent[1], den |-> 100]>>
             /\ raw.onBookPercent[1] <= 100 => InUnit(record[1].occupancy[1])

\* the percentage 0 mapped to the fraction 0
C24_Witness ==
    /\ Mapped
    /\ raw.onBookPercent = <<0>>
    /\ record[1].occupancy = <<[num |-> 0, den |-> 100]>>
    /\ record[1].forecasted_occupancy = Null

\* C25: avl_rooms is physicalCapacity - outOfOrder - onBook when the three are
\* present, zeros included, and null when one of them is absent.
C25_AvailableRooms ==
    Mapped
    => IF raw.physicalCapacity = Null \/ raw.outOfOrder = Null \/ raw.onBook = Null
       THEN record[1].avl_rooms = Null
       ELSE record[1].avl_rooms =
               <<raw.physicalCapacity[1] - raw.outOfOrder[1] - raw.onBook[1]>>

\* the three present, two of them zero
C25_Witness ==
    /\ Mapped
    /\ raw.physicalCapacity = <<2>>
    /\ raw.outOfOrder = <<0>>
    /\ raw.onBook = <<0>>
    /\ record[1].avl_rooms = <<2>>

\* C26: a field of the record is null exactly when its source field is absent
\* or null, and is the source value otherwise; a present previousRate gives a
\* previous price.
C26_NullIffAbsent ==
    Mapped
    => /\ record[1].standard_price = raw.price
       /\ record[1].standard_previous_price = raw.previousRate
       /\ record[1].standard_price_change = raw.priceDiff
       /\ record[1].competitor_set_avg_price = raw.compSetAvg
       /\ record[1].occupancy = Null <=> raw.onBookPercent = Null
       /\ record[1].forecasted_occupancy = Null <=> raw.forecastPercent = Null
       /\ record[1].ly_occupancy = Null <=> raw.lyBookingPercent = Null
       /\ record[1].arrivals_forecast = raw.arrivals
       /\ record[1].departure_forecast = raw.departures
       /\ record[1].total_rooms = raw.physicalCapacity
       /\ record[1].ooo = raw.outOfOrder
       /\ record[1].otb_rooms = raw.onBook

\* C27: the mapping of an entry raises only when the entry has no date.
C27_RaisesOnlyWithoutDate ==
    (mkind \in Callers /\ mpc # "start")
    => (mpc = "raised" <=> raw.date = Null)

\* C28: two applications of the mapper to the same entry give records equal
\* in every field.
C28_Deterministic ==
    (mkind \in Callers /\ mpc = "again") => record_again = record


\* the stages of a login by push notification and of one by a code
PushStages == <<"credentials", "factor", "challenge", "awaiting_push", "verified">>

CodeStages == <<"credentials", "factor", "challenge", "awaiting_code", "code_submitted",
                "verified">>

IsPrefix(a, b) == Len(a) <= Len(b) /\ a = SubSeq(b, 1, Len(a))

\* C29: login reports success only having gone through credentials submitted,
\* factor selected, challenge issued, (push approval awaited | code entered
\* and submitted) and verified, in this order, and a login that failed went
\* through a beginning of these stages and no further.
C29_StagesInOrder ==
    /\ IsPrefix(stages, PushStages) \/ IsPrefix(stages, CodeStages)
    /\ login_success = <<TRUE>> => stages \in {PushStages, CodeStages}


\* the body of a matched response could not be fetched or parsed at an entry
\* the function has gone past, and a structurally valid match follows it in
\* the log
FailureThenValid ==
    \E i \in 1..Len(logs), j \in 1..Len(logs) :
       /\ i < j
       /\ i < entry
       /\ logs[i] = "nobody"
       /\ StructurallyValid(logs[j])

\* C30: a failure to fetch or parse the body of one matched response does not
\* end the capture: the function goes on and returns a structurally valid
\* matching payload observed after the failure.
C30_FetchFailureDoesNotEndCapture ==
    (cpc = "returned" /\ ~driver_error /\ FailureThenValid)
    => ReturnedPayload /\ StructurallyValid(json_data[1])

(***************************************************************************)
(* Claims about the counters and the timestamp of a credential group       *)
(* (checked under Spec)                                                    *)
(***************************************************************************)
\* the execution of the scripts that loop over the credential groups is over
LocalDone == mode = "local" /\ pc = "done"

\* the runs created for the property k of the group p
RunsOf(p, k) == {r \in RunIds : runs[r].platform = p /\ runs[r].prop = k}

\* C35: at the end of an execution, successful_runs + failed_runs equals the
\* number of properties over all credential groups, successful_runs equals
\* the number of runs finalized as completed, and at most one run was created
\* per property, also when an exception escapes the property loop of a group
\* after some of its properties were processed.
C35_CountersMatchProperties ==
    LocalDone
    => /\ successful_runs + failed_runs = SumTo(property_count, NumPlatforms)
       /\ successful_runs = Cardinality({r \in RunIds : runs[r].status = "completed"})
       /\ \A p \in Platforms : \A k \in 1..property_count[p] :
             Cardinality(RunsOf(p, k)) <= 1

\* the group p was logged in and its for loop over the properties was
\* exhausted: no property code was missing from the list (the exception that
\* escapes the loop)
LoopRanToEnd(p) == login[p] = "ok" /\ codes_len[p] >= property_count[p]

RowsWritten == {bdates[i] : i \in bstored}

\* C36: for a run finalized as completed, records_created equals the number
\* of distinct (property_id, record_date) rows of update_records that the run
\* inserted or updated, also when several scraped entries of the batch
\* resolve to the same record date.
C36_RecordsCreatedCountsRows ==
    (bkind = "legacy" /\ bpc = "done" /\ brun.status = "completed")
    => brun.records_created = Cardinality(RowsWritten)

\* C37: if at least one response that matches the URL predicate and has a
\* parseable, structurally valid body is logged before max_wait elapses,
\* capture_api_response returns a payload and not None, including when the
\* body of that response is not yet retrievable at the moment its log entry
\* is first read.
C37_LoggedValidIsReturned ==
    (cpc = "returned" /\ ~driver_error /\ valid_logged) => json_data # None

(***************************************************************************)
(* Claims about the columns of a row (checked under SpecRow)               *)
(***************************************************************************)
\* C31: after any sequence of upserts by any writer, the stored day_of_week
\* of every record is the weekday of its record_date, never a value obtained
\* independently of the date (scraped text, an empty string, a value left
\* over from an earlier write).
C31_DayOfWeekFromDate ==
    \A r \in urows : r.day_of_week = strftime_A(r.record_date)

\* the quotient q (Null or <<fraction>>) is revenue / rooms when both are
\* present and rooms > 0, and is null otherwise
IsRevenuePerRoom(q, revenue, rooms) ==
    IF revenue # Null /\ rooms # Null /\ rooms[1] > 0
    THEN q # Null /\ q[1].den # 0 /\ q[1].num * rooms[1] = revenue[1] * q[1].den
    ELSE q = Null

\* C34: the stored revenue_per_room of every record equals revenue /
\* available_rooms when revenue and available rooms are both present and
\* available rooms > 0, and is null otherwise, for every writer of
\* update_records and for the calculate_revenue_per_room helper.
C34_RevenuePerRoom ==
    /\ \A r \in urows :
          IsRevenuePerRoom(r.revenue_per_room, scraped[r.record_date][1].revenue,
                           scraped[r.record_date][1].available_rooms)
    /\ rpr_call # Null
       => /\ ~rpr_call[1].outcome.raised
          /\ IsRevenuePerRoom(rpr_call[1].outcome.value, rpr_call[1].revenue,
                              rpr_call[1].total_rooms)

\* the columns an upsert of an existing row must leave alone
KeptColumns(r) ==
    <<r.property_id, r.record_date, r.scraping_run_id, r.record_timestamp,
      r.day_of_week, r.created_at>>

\* C38: when an upsert hits an existing (property_id, record_date) row, the
\* row's property_id, record_date, scraping_run_id, record_timestamp,
\* day_of_week and created_at are left unchanged; only the columns of the
\* ON DUPLICATE KEY UPDATE clause and updated_at change.
C38_UpsertKeepsColumns ==
    [][\A r \in urows :
          \E q \in urows' :
             /\ KeptColumns(q) = KeptColumns(r)
             /\ \A o \in urows' :
                   o.property_id = r.property_id /\ o.record_date = r.record_date
                   => o = q]_vars

\* an upsert of the API writer has hit a row the legacy writer inserted, and
\* has changed its revenue_per_room and updated_at
C38_Witness ==
    /\ duplicate
    /\ \E r \in urows :
          /\ r.scraping_run_id # Null
          /\ r.updated_at > r.created_at
          /\ r.revenue_per_room = Null
          /\ scraped[r.record_date] = <<[revenue |-> Null, available_rooms |-> Null]>>
          /\ r.day_of_week # strftime_A(r.record_date)

(***************************************************************************)
(* Claims about last-year ADR (checked under SpecMap)                      *)
(***************************************************************************)
\* the payload entry goes through the Wyndham mapper and was mapped
WyndhamMapped == mkind \in {"wyndham_load", "wyndham_v4"} /\ mpc \in {"mapped", "again"}

\* the divisor (lyBookingPercent / 100) * physicalCapacity, times 100
Divisor100(o) == o.lyBookingPercent[1] * o.physicalCapacity[1]

\* C32: when last-year ADR is derived, ly_adr = lyRevenue / ((lyBookingPercent
\* / 100) * physicalCapacity) whenever the three operands are present and the
\* divisor is greater than zero; with an operand missing or a zero divisor
\* the result is null, and no division error is raised.
C32_DerivedLyAdr ==
    /\ WyndhamMapped
       => IF raw.lyRevenue # Null /\ raw.lyBookingPercent # Null
               /\ raw.physicalCapacity # Null /\ Divisor100(raw) > 0
          THEN /\ record[1].ly_adr # Null
               /\ record[1].ly_adr[1].den # 0
               /\ record[1].ly_adr[1].num * Divisor100(raw)
                    = raw.lyRevenue[1] * 100 * record[1].ly_adr[1].den
          ELSE record[1].ly_adr = Null
    /\ mkind \in {"wyndham_load", "wyndham_v4"} /\ mpc = "raised" => raw.date = Null

\* an entry with the three operands and a divisor of one room (50 percent of
\* two rooms) was mapped: 90 / 1
C32_Witness ==
    /\ WyndhamMapped
    /\ raw.lyRevenue = <<90>> /\ raw.lyBookingPercent = <<50>>
    /\ raw.physicalCapacity = <<2>>
    /\ record[1].ly_adr = <<[num |-> 9000, den |-> 100]>>

\* C33: for every raw date entry, if the payload supplies lyAdr the stored
\* ly_adr equals that value, and the value derived from lyRevenue,
\* lyBookingPercent and physicalCapacity is used only when lyAdr is absent,
\* in the Choice and in the Wyndham mapping paths.
C33_DirectLyAdrPreferred ==
    Mapped /\ raw.lyAdr # Null
    => /\ record[1].ly_adr # Null
       /\ record[1].ly_adr[1].den # 0
       /\ record[1].ly_adr[1].num = raw.lyAdr[1] * record[1].ly_adr[1].den

====
